---- MODULE Spec2Model ----
(***************************************************************************)
(* A model of the netlink transport core of nl80211-rs                     *)
(* (netlink/src/core/mod.rs, netlink/src/generic.rs).                      *)
(*                                                                         *)
(* Modelled target: a 64-bit little-endian Linux build (usize is 64 bits,  *)
(* NativeEndian is little-endian).  The build profile is not fixed: Rust   *)
(* integer overflow panics with overflow checks on (debug) and wraps with  *)
(* them off (release), so `build` is chosen in Init and never changes.     *)
(*                                                                         *)
(* Byte buffers are sequences of 0..255; offsets are 0-based as in the     *)
(* source, so the byte at offset p of buffer b is b[p + 1].                *)
(***************************************************************************)
EXTENDS Integers, Sequences, FiniteSets, TLC

(***************************************************************************)
(* Bounds of the model                                                     *)
(***************************************************************************)
\* send_message calls made on one socket
MaxSends == 2
\* datagrams the kernel has queued for one receive_messages call
MaxReads == 2
\* messages one receive_messages call may hold before memory runs out
MaxMessages == 6
\* payload bytes of an attribute
MaxPayload == 5
\* attributes of one generic-netlink message
MaxAttributes == 2
\* bytes of a raw buffer handed to the attribute parser
MaxRaw == 5
MaxString == 4
MaxIE == 6
MaxInterfaceAttributes == 5
\* octets of a payload handed to a fixed-length element parser
MaxTyped == 6
\* suites an RSN payload of the pool announces
MaxSuites == 2
\* octets of a frame buffer
MaxFrame == 40
\* receive_messages calls of one get_generic_family call
MaxCalls == 2
\* chunks of an attribute list buffer
MaxChunks == 2
\* items asked of unpack_vec, and octets of its buffer
MaxItems == 2
MaxUnpack == 8

(***************************************************************************)
(* Program constants                                                       *)
(***************************************************************************)
NLMSG_NOOP == 1
NLMSG_ERROR == 2
NLMSG_DONE == 3
REQUEST == 1
MULTIPART == 2
ACKNOWLEDGE == 4
DUMP == 768
NLMSG_ALIGNTO == 4
\* size_of::<Header>() == size_of::<kernel::nlmsghdr>()
HEADER_BYTES == 16
\* Attribute::HEADER_SIZE
HEADER_SIZE == 4
\* FamilyId::Control
Control == 16

MinInt32 == -2147483647 - 1

VARIABLES
    build,                 \* "debug" | "release": overflow checks on or off
    aborted,               \* the process has panicked
    sequence_next,         \* Socket.sequence_next, per socket
    sequence_expected,     \* Socket.sequence_expected
    acknowledge_expected,  \* Socket.acknowledge_expected
    receive_buffer,        \* Socket.receive_buffer[0..bytes]
    sent,                  \* the header last handed to sendmsg (<<>> if none)
    pc,                    \* where the socket's current call stands
    more_messages,         \* receive_messages: more_messages
    result_messages,       \* receive_messages: result_messages
    pos,                   \* parse_data: pos
    parse_more,            \* parse_data: more_messages
    header,                \* parse_data: header of the last iteration (<<>> if none)
    reads,                 \* datagrams read by the current receive_messages call
    batches,               \* the datagrams the kernel delivered to that call
    ret,                   \* value returned by the last completed call
    stream,                \* attribute codec: the cursor's buffer
    cursor,                \* attribute codec: the cursor's position
    attributes,            \* attribute codec: attributes of the message to write
    parsed,                \* attribute codec: outcome of the last parse
    phase,                 \* attribute codec: which operation ran last
    operand,               \* value codecs: the value or buffer handed to the call
    outcome                \* value codecs: what the last call returned

sockvars == <<sequence_next, sequence_expected, acknowledge_expected,
              receive_buffer, sent, pc, more_messages, result_messages, pos,
              parse_more, header, reads, batches, ret>>
attrvars == <<stream, cursor, attributes, parsed, phase>>
valvars == <<operand, outcome>>
vars == <<build, aborted, sockvars, attrvars, valvars>>

(***************************************************************************)
(* Native-value codec (variant.rs), little-endian                          *)
(***************************************************************************)
Byte(v, i) == (v \div (256 ^ i)) % 256

U16Bytes(v) == <<Byte(v, 0), Byte(v, 1)>>

U32Bytes(v) == <<Byte(v, 0), Byte(v, 1), Byte(v, 2), Byte(v, 3)>>

\* two's complement of a 32-bit signed value, without leaving 32-bit range
I32Bytes(v) ==
    IF v >= 0 THEN U32Bytes(v)
    ELSE LET w == v - MinInt32
         IN  <<Byte(w, 0), Byte(w, 1), Byte(w, 2), Byte(w, 3) + 128>>

ReadU16(b, p) == b[p + 1] + 256 * b[p + 2]

ReadU32(b, p) ==
    b[p + 1] + 256 * b[p + 2] + 65536 * b[p + 3] + 16777216 * b[p + 4]

ReadI32(b, p) ==
    b[p + 1] + 256 * b[p + 2] + 65536 * b[p + 3]
        + 16777216 * (IF b[p + 4] >= 128 THEN b[p + 4] - 256 ELSE b[p + 4])

Slice(b, from, to) == SubSeq(b, from + 1, to)

Zeros(n) == [i \in 1..n |-> 0]

(***************************************************************************)
(* Alignment helpers                                                       *)
(***************************************************************************)
align_to(len, a) == ((len + a - 1) \div a) * a

netlink_align(len) == align_to(len, NLMSG_ALIGNTO)

netlink_padding(len) == netlink_align(len) - len

(***************************************************************************)
(* MessageFlags                                                            *)
(***************************************************************************)
HasBit(v, bit) == (v \div bit) % 2 = 1

\* the bits bitflags! declares: REQUEST | MULTIPART | ACKNOWLEDGE | DUMP
KnownBits == {1, 2, 4, 256, 512}

AllBits == {1, 2, 4, 8, 16, 32, 64, 128, 256, 512, 1024, 2048, 4096, 8192,
            16384, 32768}

\* MessageFlags::from_bits(v).unwrap_or(MessageFlags::empty())
from_bits_or_empty(v) ==
    IF \A bit \in AllBits : HasBit(v, bit) => bit \in KnownBits THEN v ELSE 0

\* MessageFlags::contains for a single-bit flag
contains(flags, bit) == HasBit(flags, bit)

\* impl Into<MessageFlags> for MessageMode
ModeFlags(mode) ==
    CASE mode = "None" -> REQUEST
      [] mode = "Acknowledge" -> REQUEST + ACKNOWLEDGE
      [] mode = "Dump" -> REQUEST + DUMP

MessageModes == {"None", "Acknowledge", "Dump"}

(***************************************************************************)
(* Header (mod.rs 108-159)                                                 *)
(***************************************************************************)
\* Header::parse: <<>> when one of the five reads hits the end of the buffer
Header_parse(b, p) ==
    IF p + HEADER_BYTES > Len(b) THEN <<>>
    ELSE <<[length |-> ReadU32(b, p),
            identifier |-> ReadU16(b, p + 4),
            flags |-> ReadU16(b, p + 6),
            sequence |-> ReadU32(b, p + 8),
            pid |-> ReadU32(b, p + 12)]>>

\* Header::data_length; a negative value stands for the usize underflow
data_length(h) == h.length - HEADER_BYTES

aligned_length(h) == netlink_align(h.length)

\* check_pid without the exemption of pid 0
check_pid_strict(h, pid) == h.pid = pid

check_pid(h, pid) == h.pid = 0 \/ h.pid = pid

\* check_sequence left out
check_sequence_off(h, sequence) == TRUE

\* check_sequence accepting every sequence number up to the expected one
check_sequence_loose(h, sequence) == h.pid = 0 \/ h.sequence <= sequence

check_sequence(h, sequence) == h.pid = 0 \/ h.sequence = sequence

(***************************************************************************)
(* Values returned by the calls                                            *)
(***************************************************************************)
NoError == [kind |-> "none", os |-> 0]

ErrInvalidPid == [kind |-> "InvalidData: Invalid PID", os |-> 0]

ErrInvalidSequence == [kind |-> "InvalidData: Invalid Sequence", os |-> 0]

ErrUnexpectedEof == [kind |-> "UnexpectedEof", os |-> 0]

ErrPayload == [kind |-> "payload write failed", os |-> 0]

\* io::Error::from_raw_os_error(n)
ErrOs(n) == [kind |-> "Os", os |-> n]

NoReturn == [call |-> "none", ok |-> TRUE, messages |-> <<>>, error |-> NoError]

RetOk(call, messages) ==
    [call |-> call, ok |-> TRUE, messages |-> messages, error |-> NoError]

RetErr(call, error) ==
    [call |-> call, ok |-> FALSE, messages |-> <<>>, error |-> error]

(***************************************************************************)
(* Message (mod.rs 175-207)                                                *)
(***************************************************************************)
Data(h, data) == [tag |-> "Data", header |-> <<h>>, data |-> data]

Acknowledge == [tag |-> "Acknowledge", header |-> <<>>, data |-> <<>>]

Done == [tag |-> "Done", header |-> <<>>, data |-> <<>>]

\* DataMessage::parse reading aligned_data_length bytes
DataMessage_parse_padded(b, rp, h) ==
    IF h.length < HEADER_BYTES THEN [kind |-> "panic", data |-> <<>>]
    ELSE IF rp + netlink_align(data_length(h)) > Len(b)
    THEN [kind |-> "err", data |-> <<>>]
    ELSE [kind |-> "ok", data |-> Slice(b, rp, rp + netlink_align(data_length(h)))]

\* DataMessage::parse with the reader at rp.  vec![0u8; data_length] comes
\* first: with length < 16 the subtraction overflows (a panic with overflow
\* checks, and without them a request for more than isize::MAX bytes, which
\* panics with "capacity overflow").
DataMessage_parse(b, rp, h) ==
    IF h.length < HEADER_BYTES THEN [kind |-> "panic", data |-> <<>>]
    ELSE IF rp + data_length(h) > Len(b) THEN [kind |-> "err", data |-> <<>>]
    ELSE [kind |-> "ok", data |-> Slice(b, rp, rp + data_length(h))]

\* ErrorMessage::parse with the reader at rp: the code, then the header of
\* the request the kernel answers
ErrorMessage_parse(b, rp) ==
    IF rp + 4 + HEADER_BYTES > Len(b) THEN [kind |-> "err", code |-> 0]
    ELSE [kind |-> "ok", code |-> ReadI32(b, rp)]

(***************************************************************************)
(* The kernel side: messages and datagrams a socket may be handed          *)
(***************************************************************************)
Pid == [control |-> 11, event |-> 12, foreign |-> 13]

nl_pid(s) == Pid[s]

WireMessage(length, identifier, flags, sequence, pid, body) ==
    [length |-> length, identifier |-> identifier, flags |-> flags,
     sequence |-> sequence, pid |-> pid, body |-> body]

\* a message whose length field is what the kernel writes
Wire(identifier, flags, sequence, pid, body) ==
    WireMessage(HEADER_BYTES + Len(body), identifier, flags, sequence, pid, body)

HeaderBytes(m) ==
    U32Bytes(m.length) \o U16Bytes(m.identifier) \o U16Bytes(m.flags)
        \o U32Bytes(m.sequence) \o U32Bytes(m.pid)

\* one message as the kernel lays it out: header, body, padding to 4
Encode(m) == HeaderBytes(m) \o m.body \o Zeros(netlink_padding(Len(m.body)))

RECURSIVE DatagramBytes(_)
DatagramBytes(d) ==
    IF d = <<>> THEN <<>> ELSE Encode(Head(d)) \o DatagramBytes(Tail(d))

\* body of an NLMSG_ERROR message answering request `sequence` of `pid`
ErrorBody(code, sequence, pid) ==
    I32Bytes(code)
        \o HeaderBytes(WireMessage(HEADER_BYTES, Control, REQUEST + ACKNOWLEDGE,
                                    sequence, pid, <<>>))

SeqValues == 1..MaxSends

ErrorCodes == {0, -1, 5, MinInt32}

\* NLM_F_MULTI together with NLM_F_DUMP_INTR, a bit MessageFlags does not declare
MultiInterrupted == MULTIPART + 16

Replies(p) ==
    {Wire(Control, f, q, p, <<7>>) : f \in {0, MULTIPART}, q \in SeqValues}
  \cup {Wire(Control, MultiInterrupted, 1, p, <<7, 7, 7, 7>>)}
  \cup {Wire(NLMSG_DONE, MULTIPART, q, p, <<0, 0, 0, 0>>) : q \in SeqValues}
  \cup {Wire(NLMSG_ERROR, 0, q, p, ErrorBody(0, q, p)) : q \in SeqValues}
  \cup {Wire(NLMSG_ERROR, 0, 1, p, ErrorBody(c, 1, p)) : c \in ErrorCodes}
  \cup {Wire(NLMSG_NOOP, 0, 1, p, <<>>)}

\* multicast notifications: pid 0, any sequence number
Multicasts == {Wire(Control, 0, q, 0, <<8, 8>>) : q \in {0, 9}}

\* messages that are not what the kernel sends to this socket
Malformed(p) ==
    {Wire(Control, 0, 1, Pid["foreign"], <<7>>),
     \* an ERROR message cut after its code
     Wire(NLMSG_ERROR, 0, 1, p, I32Bytes(0)),
     \* length fields below the header size
     WireMessage(0, NLMSG_NOOP, 0, 1, p, <<>>),
     WireMessage(4, NLMSG_NOOP, 0, 1, p, <<>>),
     WireMessage(0, NLMSG_DONE, 0, 0, 0, <<>>),
     WireMessage(8, Control, 0, 1, p, <<>>),
     \* a length field beyond the datagram
     WireMessage(64, Control, 0, 1, p, <<7>>)}

Messages(p) == Replies(p) \cup Multicasts \cup Malformed(p)

\* second messages of the two-message datagrams
Followers(p) ==
    {Wire(Control, MULTIPART, 1, p, <<7>>),
     Wire(NLMSG_DONE, MULTIPART, 1, p, <<0, 0, 0, 0>>),
     Wire(Control, 0, 1, Pid["foreign"], <<7>>)}

Leaders(p) ==
    {Wire(Control, 0, 1, p, <<7>>),
     Wire(Control, MULTIPART, 1, p, <<7>>),
     Wire(NLMSG_NOOP, 0, 1, p, <<>>),
     Wire(NLMSG_ERROR, 0, 1, p, ErrorBody(0, 1, p)),
     WireMessage(4, NLMSG_NOOP, 0, 1, p, <<>>),
     Wire(Control, 0, 9, 0, <<8, 8>>)}

Datagrams(p) ==
    {<<m>> : m \in Messages(p)}
  \cup {<<m, n>> : m \in Leaders(p), n \in Followers(p)}

\* the few datagrams used when two sockets run side by side
PairDatagrams(p) ==
    {<<Wire(Control, 0, 1, p, <<7>>)>>,
     <<Wire(NLMSG_ERROR, 0, 1, p, ErrorBody(0, 1, p))>>,
     <<Wire(Control, 0, 9, 0, <<8, 8>>)>>,
     <<Wire(Control, MULTIPART, 0, 0, <<8, 8>>),
       Wire(Control, 0, 1, Pid["control"], <<7>>)>>}

(***************************************************************************)
(* Socket (mod.rs 296-511)                                                 *)
(***************************************************************************)
Sockets == {"control", "event"}

\* -emsg.code: the negation of i32::MIN overflows
Negate(code, bld) ==
    IF code = MinInt32
    THEN IF bld = "debug" THEN [panic |-> TRUE, value |-> 0]
                          ELSE [panic |-> FALSE, value |-> MinInt32]
    ELSE [panic |-> FALSE, value |-> 0 - code]

Step(kind, hdr, p, push, more, error) ==
    [kind |-> kind, header |-> hdr, pos |-> p, push |-> push, more |-> more,
     error |-> error]

\* One iteration of the while loop of parse_data (mod.rs 476-508) over the
\* received bytes b, from position p.  kind "next" goes on with the loop,
\* "err" leaves receive_messages with the error, "panic" ends the process.
parse_data_iteration(b, p, pid, sequence, ack, more, bld) ==
    LET hp == Header_parse(b, p) IN
    IF hp = <<>> THEN Step("err", <<>>, p, <<>>, more, ErrUnexpectedEof)
    ELSE
    LET h == hp[1]
        np == p + aligned_length(h)
        rp == p + HEADER_BYTES
    IN
    IF ~check_pid(h, pid) THEN Step("err", hp, np, <<>>, more, ErrInvalidPid)
    ELSE IF ~check_sequence(h, sequence)
    THEN Step("err", hp, np, <<>>, more, ErrInvalidSequence)
    ELSE IF h.identifier = NLMSG_NOOP
    THEN Step("next", hp, np, <<>>, more, NoError)
    ELSE IF h.identifier = NLMSG_ERROR
    THEN LET em == ErrorMessage_parse(b, rp) IN
         IF em.kind = "err"
         THEN Step("err", hp, np, <<>>, more, ErrUnexpectedEof)
         ELSE IF em.code # 0
         THEN LET n == Negate(em.code, bld) IN
              IF n.panic THEN Step("panic", hp, np, <<>>, more, NoError)
              ELSE Step("err", hp, np, <<>>, more, ErrOs(n.value))
         ELSE Step("next", hp, np, <<Acknowledge>>, more, NoError)
    ELSE IF h.identifier = NLMSG_DONE
    THEN Step("next", hp, np, <<Done>>, more, NoError)
    ELSE LET flags == from_bits_or_empty(h.flags)
             dm == DataMessage_parse(b, rp, h)
         IN
         IF dm.kind = "panic" THEN Step("panic", hp, np, <<>>, more, NoError)
         ELSE IF dm.kind = "err"
         THEN Step("err", hp, np, <<>>, more, ErrUnexpectedEof)
         ELSE Step("next", hp, np, <<Data(h, dm.data)>>,
                   more \/ contains(flags, MULTIPART) \/ ack, NoError)

Idle(s) == pc[s] = "idle" /\ ~aborted

\* what a call leaves behind of the call before it
ResetCall(s) ==
    /\ result_messages' = [result_messages EXCEPT ![s] = <<>>]
    /\ pos' = [pos EXCEPT ![s] = 0]
    /\ parse_more' = [parse_more EXCEPT ![s] = FALSE]
    /\ header' = [header EXCEPT ![s] = <<>>]
    /\ reads' = [reads EXCEPT ![s] = 0]
    /\ batches' = [batches EXCEPT ![s] = <<>>]

\* send_message incrementing the sequence number before it writes the header
SentHeader_preincremented(s, flags) ==
    [length |-> HEADER_BYTES + 4, identifier |-> Control, flags |-> flags,
     sequence |-> sequence_next[s] + 1, pid |-> nl_pid(s)]

\* the header send_message writes at offset 0 (mod.rs 396-402) for a
\* generic-netlink request without attributes
SentHeader(s, flags) ==
    [length |-> HEADER_BYTES + 4, identifier |-> Control, flags |-> flags,
     sequence |-> sequence_next[s], pid |-> nl_pid(s)]

\* Socket::send_message (mod.rs 388-418).  write_ok: payload.write succeeds;
\* send_ok: sendmsg succeeds.
send_message(s, modes) ==
    /\ Idle(s)
    /\ sequence_next[s] <= MaxSends
    /\ \E mode \in modes, write_ok \in BOOLEAN, send_ok \in BOOLEAN :
         LET flags == ModeFlags(mode) IN
         IF ~write_ok
         THEN /\ ret' = [ret EXCEPT ![s] = RetErr("send_message", ErrPayload)]
              /\ UNCHANGED <<sent, acknowledge_expected, sequence_expected,
                             sequence_next>>
         ELSE /\ sent' = [sent EXCEPT ![s] = <<SentHeader(s, flags)>>]
              /\ acknowledge_expected' =
                   [acknowledge_expected EXCEPT ![s] = contains(flags, ACKNOWLEDGE)]
              /\ sequence_expected' =
                   [sequence_expected EXCEPT ![s] = sequence_next[s]]
              /\ sequence_next' = [sequence_next EXCEPT ![s] = sequence_next[s] + 1]
              /\ ret' = [ret EXCEPT ![s] =
                           IF send_ok THEN RetOk("send_message", <<>>)
                           ELSE RetErr("send_message", ErrOs(105))]
    /\ ResetCall(s)
    /\ UNCHANGED <<build, aborted, receive_buffer, pc, more_messages, attrvars>>

\* send_message called with a message of any mode
SendMessage(s) ==
    /\ send_message(s, MessageModes)
    /\ UNCHANGED valvars

\* Socket::receive_messages, entry (mod.rs 453-455)
ReceiveMessages(s) ==
    /\ Idle(s)
    /\ ResetCall(s)
    /\ more_messages' = [more_messages EXCEPT ![s] = TRUE]
    /\ pc' = [pc EXCEPT ![s] = "recv"]
    /\ ret' = [ret EXCEPT ![s] = NoReturn]
    /\ UNCHANGED <<build, aborted, sequence_next, sequence_expected,
                   acknowledge_expected, receive_buffer, sent, attrvars, valvars>>

\* receive_messages leaves with the value r
Return(s, r) ==
    /\ ret' = [ret EXCEPT ![s] = r]
    /\ pc' = [pc EXCEPT ![s] = "idle"]

\* The loop head of receive_messages with more_messages true (mod.rs 455-466):
\* receive_bytes, which turns EAGAIN into Ok(0), and then either the break,
\* the error return, or the call of parse_data on the bytes read.
ReceiveBytes(s, kernel) ==
    /\ pc[s] = "recv" /\ ~aborted
    /\ more_messages[s]
    /\ \/ /\ Return(s, RetOk("receive_messages", result_messages[s]))
          /\ UNCHANGED <<receive_buffer, pos, parse_more, header, reads, batches>>
       \/ /\ Return(s, RetErr("receive_messages", ErrOs(105)))
          /\ UNCHANGED <<receive_buffer, pos, parse_more, header, reads, batches>>
       \/ /\ reads[s] < MaxReads
          /\ \E d \in kernel :
               /\ receive_buffer' = [receive_buffer EXCEPT ![s] = DatagramBytes(d)]
               /\ batches' = [batches EXCEPT ![s] = Append(batches[s], d)]
          /\ reads' = [reads EXCEPT ![s] = reads[s] + 1]
          /\ pos' = [pos EXCEPT ![s] = 0]
          /\ parse_more' = [parse_more EXCEPT ![s] = FALSE]
          /\ header' = [header EXCEPT ![s] = <<>>]
          /\ pc' = [pc EXCEPT ![s] = "parse"]
          /\ UNCHANGED ret
    /\ UNCHANGED <<build, aborted, sequence_next, sequence_expected,
                   acknowledge_expected, sent, more_messages, result_messages,
                   attrvars, valvars>>

\* One iteration of the loop of parse_data (mod.rs 476-508)
ParseData(s) ==
    /\ pc[s] = "parse" /\ ~aborted
    /\ pos[s] < Len(receive_buffer[s])
    /\ LET it == parse_data_iteration(receive_buffer[s], pos[s], nl_pid(s),
                                      sequence_expected[s],
                                      acknowledge_expected[s], parse_more[s],
                                      build)
       IN
       /\ Len(result_messages[s]) + Len(it.push) <= MaxMessages
       /\ header' = [header EXCEPT ![s] = IF it.header = <<>> THEN @ ELSE it.header]
       /\ pos' = [pos EXCEPT ![s] = it.pos]
       /\ parse_more' = [parse_more EXCEPT ![s] = it.more]
       /\ result_messages' =
            [result_messages EXCEPT ![s] = result_messages[s] \o it.push]
       /\ aborted' = (it.kind = "panic")
       /\ IF it.kind = "err"
          THEN Return(s, RetErr("receive_messages", it.error))
          ELSE UNCHANGED <<ret, pc>>
    /\ UNCHANGED <<build, sequence_next, sequence_expected,
                   acknowledge_expected, receive_buffer, sent, more_messages,
                   reads, batches, attrvars, valvars>>

\* parse_data returns Ok(more_messages) to receive_messages (mod.rs 509, 464)
ParseDataReturn(s) ==
    /\ pc[s] = "parse" /\ ~aborted
    /\ pos[s] >= Len(receive_buffer[s])
    /\ more_messages' = [more_messages EXCEPT ![s] = parse_more[s]]
    /\ pc' = [pc EXCEPT ![s] = "recv"]
    /\ UNCHANGED <<build, aborted, sequence_next, sequence_expected,
                   acknowledge_expected, receive_buffer, sent, result_messages,
                   pos, parse_more, header, reads, batches, ret, attrvars, valvars>>

\* The loop head of receive_messages with more_messages false (mod.rs 455, 468)
ReceiveMessagesReturn(s) ==
    /\ pc[s] = "recv" /\ ~aborted
    /\ ~more_messages[s]
    /\ Return(s, RetOk("receive_messages", result_messages[s]))
    /\ UNCHANGED <<build, aborted, sequence_next, sequence_expected,
                   acknowledge_expected, receive_buffer, sent, more_messages,
                   result_messages, pos, parse_more, header, reads, batches,
                   attrvars, valvars>>

NoParse == [op |-> "none", kind |-> "none", attrs |-> <<>>, start |-> 0]

\* Socket::new_multicast (mod.rs 336-346) for every socket
SocketInit ==
    /\ aborted = FALSE
    /\ sequence_next = [s \in Sockets |-> 1]
    /\ sequence_expected = [s \in Sockets |-> 0]
    /\ acknowledge_expected = [s \in Sockets |-> FALSE]
    /\ receive_buffer = [s \in Sockets |-> <<>>]
    /\ sent = [s \in Sockets |-> <<>>]
    /\ pc = [s \in Sockets |-> "idle"]
    /\ more_messages = [s \in Sockets |-> FALSE]
    /\ result_messages = [s \in Sockets |-> <<>>]
    /\ pos = [s \in Sockets |-> 0]
    /\ parse_more = [s \in Sockets |-> FALSE]
    /\ header = [s \in Sockets |-> <<>>]
    /\ reads = [s \in Sockets |-> 0]
    /\ batches = [s \in Sockets |-> <<>>]
    /\ ret = [s \in Sockets |-> NoReturn]

CodecOff ==
    /\ stream = <<>>
    /\ cursor = 0
    /\ attributes = <<>>
    /\ parsed = NoParse
    /\ phase = "off"

\* no value codec has been called
NoValue ==
    [op |-> "none", type |-> "none", kind |-> "none",
     value |-> [neg |-> FALSE, mag |-> <<>>], bytes |-> <<>>]

ValuesOff ==
    /\ operand = NoValue
    /\ outcome = NoValue

Init ==
    /\ build \in {"debug", "release"}
    /\ SocketInit
    /\ CodecOff
    /\ ValuesOff

\* one socket, talking to the kernel
Next ==
    \/ SendMessage("control")
    \/ ReceiveMessages("control")
    \/ ReceiveBytes("control", Datagrams(nl_pid("control")))
    \/ ParseData("control")
    \/ ParseDataReturn("control")
    \/ ReceiveMessagesReturn("control")

Spec == Init /\ [][Next]_vars

\* a control socket and an event socket side by side (examples/nl80211.rs,
\* Monitor): requests go out on the control socket only
NextPair ==
    \/ SendMessage("control")
    \/ \E s \in Sockets :
         \/ ReceiveMessages(s)
         \/ ReceiveBytes(s, PairDatagrams(nl_pid(s)))
         \/ ParseData(s)
         \/ ParseDataReturn(s)
         \/ ReceiveMessagesReturn(s)

SpecPair == Init /\ [][NextPair]_vars

(***************************************************************************)
(* Attribute codec (mod.rs 209-292) and generic::Message (generic.rs)      *)
(***************************************************************************)
Attribute(identifier, data) == [identifier |-> identifier, data |-> data]

\* u16 arithmetic: the result, or a panic where overflow checks are on
Sub16(a, b, bld) ==
    IF a >= b THEN [panic |-> FALSE, value |-> a - b]
    ELSE IF bld = "debug" THEN [panic |-> TRUE, value |-> 0]
    ELSE [panic |-> FALSE, value |-> a - b + 65536]

Add16(a, b, bld) ==
    IF a + b < 65536 THEN [panic |-> FALSE, value |-> a + b]
    ELSE IF bld = "debug" THEN [panic |-> TRUE, value |-> 0]
    ELSE [panic |-> FALSE, value |-> a + b - 65536]

\* Attribute::len: self.data.len() as u16
Attribute_len(a) == Len(a.data) % 65536

\* Attribute::write storing the padded length in the length field
Attribute_write_aligned(a, bld) ==
    [panic |-> FALSE,
     bytes |-> U16Bytes(netlink_align(Len(a.data) + HEADER_SIZE))
                 \o U16Bytes(a.identifier) \o a.data]

\* Attribute::write (mod.rs 272-278): the bytes appended to the writer
Attribute_write(a, bld) ==
    LET length == Add16(Attribute_len(a), HEADER_SIZE, bld) IN
    IF length.panic THEN [panic |-> TRUE, bytes |-> <<>>]
    ELSE [panic |-> FALSE,
          bytes |-> U16Bytes(length.value) \o U16Bytes(a.identifier) \o a.data]

\* Attribute::parse (mod.rs 217-226) on a cursor over b at position c
Attribute_parse(b, c, bld) ==
    IF c + 2 > Len(b) THEN [kind |-> "err", attr |-> <<>>, cursor |-> c]
    ELSE
    LET length == ReadU16(b, c)
        padding == netlink_padding(length)
        dl == Sub16(length, HEADER_SIZE, bld)
    IN
    IF dl.panic THEN [kind |-> "panic", attr |-> <<>>, cursor |-> c + 2]
    ELSE IF c + 4 > Len(b) THEN [kind |-> "err", attr |-> <<>>, cursor |-> c + 2]
    ELSE IF c + 4 + dl.value > Len(b)
    THEN [kind |-> "err", attr |-> <<>>, cursor |-> c + 4]
    ELSE [kind |-> "ok",
          attr |-> <<Attribute(ReadU16(b, c + 2), Slice(b, c + 4, c + 4 + dl.value))>>,
          cursor |-> c + 4 + dl.value + padding]

\* parse_attributes (mod.rs 281-292): parse until the first error
RECURSIVE parse_attributes(_, _, _)
parse_attributes(b, c, bld) ==
    LET r == Attribute_parse(b, c, bld) IN
    IF r.kind = "panic" THEN [kind |-> "panic", attrs |-> <<>>, cursor |-> r.cursor]
    ELSE IF r.kind = "err" THEN [kind |-> "ok", attrs |-> <<>>, cursor |-> r.cursor]
    ELSE LET rest == parse_attributes(b, r.cursor, bld) IN
         [kind |-> rest.kind, attrs |-> r.attr \o rest.attrs, cursor |-> rest.cursor]

RECURSIVE write_attributes(_, _)
write_attributes(as, bld) ==
    IF as = <<>> THEN [panic |-> FALSE, bytes |-> <<>>]
    ELSE LET w == Attribute_write(Head(as), bld)
             rest == write_attributes(Tail(as), bld)
         IN  [panic |-> w.panic \/ rest.panic, bytes |-> w.bytes \o rest.bytes]

\* impl Sendable for generic::Message, write (generic.rs 100-108), for a
\* GetFamily request (command 3) of version 1
Message_write(as, bld) ==
    LET w == write_attributes(as, bld) IN
    [panic |-> w.panic, bytes |-> <<3, 1, 0, 0>> \o w.bytes]

\* generic::Message::parse (generic.rs 75-87): command, version, a u16, and
\* then parse_attributes on the same reader
Message_parse(b, bld) ==
    IF Len(b) < 4 THEN [kind |-> "err", attrs |-> <<>>, cursor |-> 0]
    ELSE parse_attributes(b, 4, bld)

Identifiers == {1, 258}

Payloads == {[i \in 1..n |-> v] : n \in 0..MaxPayload, v \in {0, 9}}

Attributes == {Attribute(id, d) : id \in Identifiers, d \in Payloads}

RECURSIVE ListsUpTo(_)
ListsUpTo(n) ==
    IF n = 0 THEN {<<>>}
    ELSE LET shorter == ListsUpTo(n - 1) IN
         shorter \cup {Append(l, a) : l \in {k \in shorter : Len(k) = n - 1},
                                      a \in Attributes}

RawBytes == {0, 3, 4, 6}

RECURSIVE BuffersUpTo(_)
BuffersUpTo(n) ==
    IF n = 0 THEN {<<>>}
    ELSE LET shorter == BuffersUpTo(n - 1) IN
         shorter \cup {Append(l, x) : l \in {k \in shorter : Len(k) = n - 1},
                                      x \in RawBytes}

Running == ~aborted

\* Attribute::write of a single attribute into an empty writer
AttributeWrite ==
    /\ Running /\ phase = "new" /\ Len(attributes) = 1
    /\ LET w == Attribute_write(attributes[1], build) IN
       /\ aborted' = w.panic
       /\ stream' = w.bytes
    /\ phase' = "attribute"
    /\ UNCHANGED <<build, sockvars, cursor, attributes, parsed, valvars>>

\* generic::Message::write of the message holding `attributes`
MessageWrite ==
    /\ Running /\ phase = "new"
    /\ LET w == Message_write(attributes, build) IN
       /\ aborted' = w.panic
       /\ stream' = w.bytes
    /\ phase' = "message"
    /\ UNCHANGED <<build, sockvars, cursor, attributes, parsed, valvars>>

Parsed(op, r, attrs, start) ==
    /\ parsed' = [op |-> op, kind |-> r.kind, attrs |-> attrs, start |-> start]
    /\ cursor' = r.cursor
    /\ aborted' = (r.kind = "panic")
    /\ UNCHANGED <<build, sockvars, stream, attributes, phase, valvars>>

\* Attribute::parse on a fresh cursor over the stream
AttributeParse ==
    /\ Running /\ phase \in {"raw", "attribute"} /\ parsed.op = "none"
    /\ LET r == Attribute_parse(stream, 0, build) IN
       Parsed("Attribute::parse", r, r.attr, 0)

\* parse_attributes on a fresh cursor over the stream
ParseAttributes ==
    /\ Running /\ phase = "raw" /\ parsed.op = "none"
    /\ LET r == parse_attributes(stream, 0, build) IN
       Parsed("parse_attributes", r, r.attrs, 0)

\* generic::Message::parse on a fresh cursor over the written message
MessageParse ==
    /\ Running /\ phase = "message" /\ parsed.op = "none"
    /\ LET r == Message_parse(stream, build) IN
       Parsed("Message::parse", r, r.attrs, 4)

CodecInit ==
    /\ build \in {"debug", "release"}
    /\ SocketInit
    /\ ValuesOff
    /\ cursor = 0
    /\ parsed = NoParse
    /\ \/ /\ phase = "raw"
          /\ attributes = <<>>
          /\ stream \in BuffersUpTo(MaxRaw)
       \/ /\ phase = "new"
          /\ stream = <<>>
          /\ attributes \in ListsUpTo(MaxAttributes)

CodecNext ==
    \/ AttributeWrite
    \/ MessageWrite
    \/ AttributeParse
    \/ ParseAttributes
    \/ MessageParse

SpecCodec == CodecInit /\ [][CodecNext]_vars

(***************************************************************************)
(* Properties of the socket transport                                      *)
(***************************************************************************)
Last(q) == q[Len(q)]

\* sequence number of the most recent send_message (0 before the first,
\* which is what a new socket expects)
LastSentSequence(s) == IF sent[s] = <<>> THEN 0 ELSE sent[s][1].sequence

IntegrityErrors == {ErrInvalidPid, ErrInvalidSequence}

FailedWith(s, errors) ==
    /\ pc[s] = "idle"
    /\ ret[s].call = "receive_messages"
    /\ ~ret[s].ok
    /\ ret[s].error \in errors

ReturnedOk(s) ==
    pc[s] = "idle" /\ ret[s].call = "receive_messages" /\ ret[s].ok

DataMessages(q) == {q[i] : i \in {j \in 1..Len(q) : q[j].tag = "Data"}}

\* C1: a parsed header whose pid is neither 0 nor the bound pid, or whose pid
\* is not 0 and whose sequence is not the one of the most recent send, makes
\* the receive call fail with a data-integrity error; every Data message a
\* call holds or returns has pid 0, or the bound pid and that sequence.
C1_PidSequenceChecked ==
    \A s \in Sockets :
      /\ \A i \in 1..Len(header[s]) :
           LET h == header[s][i] IN
           (\/ h.pid \notin {0, nl_pid(s)}
            \/ (h.pid # 0 /\ h.sequence # LastSentSequence(s)))
             => FailedWith(s, IntegrityErrors)
      /\ \A m \in DataMessages(result_messages[s]) \cup DataMessages(ret[s].messages) :
           LET h == m.header[1] IN
           h.pid = 0 \/ (h.pid = nl_pid(s) /\ h.sequence = LastSentSequence(s))

\* C1 witness: the second header of a batch carries a foreign pid and the
\* call has failed on it
C1_Witness ==
    /\ header["control"] # <<>>
    /\ header["control"][1].pid = Pid["foreign"]
    /\ pos["control"] > 2 * HEADER_BYTES
    /\ sent["control"] # <<>>
    /\ FailedWith("control", {ErrInvalidPid})

\* where the message of the last parsed header starts in the buffer
HeaderStart(s) == pos[s] - aligned_length(header[s][1])

Checked(s) ==
    /\ header[s] # <<>>
    /\ check_pid(header[s][1], nl_pid(s))
    /\ check_sequence(header[s][1], sequence_expected[s])

\* an ERROR message with its code and original header in the buffer
CompleteError(s) ==
    /\ Checked(s)
    /\ header[s][1].identifier = NLMSG_ERROR
    /\ HeaderStart(s) >= 0
    /\ HeaderStart(s) + HEADER_BYTES + 4 + HEADER_BYTES <= Len(receive_buffer[s])

ErrorCode(s) == ReadI32(receive_buffer[s], HeaderStart(s) + HEADER_BYTES)

\* n is the number -code
IsNegated(n, code) == code # MinInt32 /\ n = 0 - code

\* C2: an ERROR message with code 0 becomes Message::Acknowledge; with a
\* nonzero code the receive call fails with the OS error numbered -code and
\* appends nothing.
C2_ErrorTranslated ==
    \A s \in Sockets :
      CompleteError(s) =>
        IF ErrorCode(s) = 0
        THEN /\ result_messages[s] # <<>>
             /\ Last(result_messages[s]) = Acknowledge
             /\ ~aborted
        ELSE /\ pc[s] = "idle" /\ ~aborted
             /\ ret[s].call = "receive_messages" /\ ~ret[s].ok
             /\ ret[s].error.kind = "Os"
             /\ IsNegated(ret[s].error.os, ErrorCode(s))

\* the last iteration of parse_data appended a Data message
DataJustAppended(s) ==
    /\ pc[s] = "parse" /\ ~aborted
    /\ header[s] # <<>>
    /\ result_messages[s] # <<>>
    /\ Last(result_messages[s]).tag = "Data"
    /\ Last(result_messages[s]).header = header[s]

\* C3: a Data message whose flags have the MULTIPART bit, whatever other bits
\* are set, raises the continuation signal that makes receive_messages read
\* again, and so does every Data message when the last request carried
\* ACKNOWLEDGE.
C3_MultipartContinues ==
    \A s \in Sockets :
      (/\ DataJustAppended(s)
       /\ \/ HasBit(header[s][1].flags, MULTIPART)
          \/ (sent[s] # <<>> /\ HasBit(sent[s][1].flags, ACKNOWLEDGE)))
        => parse_more[s]

\* the socket's counters against the header of its most recent send
C4_State ==
    \A s \in Sockets :
      IF sent[s] = <<>>
      THEN sequence_next[s] = 1 /\ sequence_expected[s] = 0
           /\ ~acknowledge_expected[s]
      ELSE LET h == sent[s][1] IN
           /\ h.sequence = sequence_expected[s]
           /\ sequence_next[s] = h.sequence + 1
           /\ acknowledge_expected[s] <=> HasBit(h.flags, ACKNOWLEDGE)
           /\ h.pid = nl_pid(s)

\* a send writes 1 first and then the previous number plus one
C4_Step ==
    \A s \in Sockets :
      sent'[s] # sent[s] =>
        sent'[s][1].sequence = IF sent[s] = <<>> THEN 1 ELSE sent[s][1].sequence + 1

\* C4: the first send_message writes sequence number 1 and each later one
\* the previous number plus one; after a send the expected sequence is the
\* number written, the next number is one more, and acknowledge_expected
\* holds exactly when the flags sent contain ACKNOWLEDGE.
C4_SequenceNumbers == []C4_State /\ [][C4_Step]_vars

\* C4 witness: a second send, in acknowledge mode, after a first one without
C4_Witness ==
    /\ sent["control"] # <<>>
    /\ sent["control"][1].sequence = 2
    /\ sent["control"][1].flags = REQUEST + ACKNOWLEDGE
    /\ acknowledge_expected["control"]
    /\ ret["control"].call = "send_message"

\* the header fields of a message of the kernel
HeaderOf(m) ==
    [length |-> m.length, identifier |-> m.identifier, flags |-> m.flags,
     sequence |-> m.sequence, pid |-> m.pid]

\* what one message of a batch contributes to the result: NOOP nothing, DONE
\* Done, an ERROR message Acknowledge when errors_acknowledge is set, and
\* every other message Data with its header and payload
Contribution(m, errors_acknowledge) ==
    IF m.identifier = NLMSG_NOOP THEN <<>>
    ELSE IF m.identifier = NLMSG_DONE THEN <<Done>>
    ELSE IF m.identifier = NLMSG_ERROR /\ errors_acknowledge THEN <<Acknowledge>>
    ELSE <<Data(HeaderOf(m), m.body)>>

RECURSIVE BatchMessages(_, _)
BatchMessages(d, errors_acknowledge) ==
    IF d = <<>> THEN <<>>
    ELSE Contribution(Head(d), errors_acknowledge)
           \o BatchMessages(Tail(d), errors_acknowledge)

RECURSIVE Concatenation(_, _)
Concatenation(bs, errors_acknowledge) ==
    IF bs = <<>> THEN <<>>
    ELSE BatchMessages(Head(bs), errors_acknowledge)
           \o Concatenation(Tail(bs), errors_acknowledge)

\* C5 as stated: the result of a successful receive_messages is the
\* concatenation of the messages of the batches read, NOOP skipped, DONE as
\* Done, every other type as Data.
C5_AsStated ==
    \A s \in Sockets :
      ReturnedOk(s)
        => ret[s].messages = Concatenation(batches[s], FALSE)

\* the same with an ERROR message of code 0 contributing Acknowledge
C5_Result ==
    \A s \in Sockets :
      ReturnedOk(s)
        => ret[s].messages = Concatenation(batches[s], TRUE)

\* from the loop head the call either reads, which takes a continuation
\* signal, or returns what it has collected
C5_LoopHead ==
    \A s \in Sockets :
      (pc[s] = "recv" /\ pc'[s] # "recv") =>
        IF pc'[s] = "parse" THEN more_messages[s]
        ELSE /\ pc'[s] = "idle"
             /\ ret'[s].ok => ret'[s].messages = result_messages[s]

\* C5 (amended): as C5_AsStated, with an ERROR message of code 0 contributing
\* Acknowledge; a datagram is read only at the start of the call or after a
\* batch that raised the continuation signal, and a zero-byte read or a batch
\* without the signal returns the messages collected so far.
C5_ReceiveResult == []C5_Result /\ [][C5_LoopHead]_vars

\* C5 witness: two batches, the first a NOOP and a multipart Data message,
\* the second a DONE, returned as <<Data, Done>>
C5_Witness ==
    /\ ReturnedOk("control")
    /\ Len(batches["control"]) = 2
    /\ Len(batches["control"][1]) = 2
    /\ batches["control"][1][1].identifier = NLMSG_NOOP
    /\ Len(ret["control"].messages) = 2
    /\ ret["control"].messages[1].tag = "Data"
    /\ ret["control"].messages[1].data = <<7>>
    /\ ret["control"].messages[2].tag = "Done"

\* C6: every header the framing layer accepts (the loop goes on after it)
\* has length >= 16; a header with a smaller length field neither sizes a
\* payload nor advances the read position.
C6_LengthAtLeastHeader ==
    \A s \in Sockets :
      (pc[s] = "parse" /\ header[s] # <<>>)
        => header[s][1].length >= HEADER_BYTES

\* what the sends on s alone determine
OwnSends(s) ==
    IF sent[s] = <<>> THEN <<1, 0, FALSE>>
    ELSE <<sent[s][1].sequence + 1, sent[s][1].sequence,
           HasBit(sent[s][1].flags, ACKNOWLEDGE)>>

\* each socket's counters are those of its own sends; pid 0 is never rejected
C7_State ==
    \A s \in Sockets :
      /\ <<sequence_next[s], sequence_expected[s], acknowledge_expected[s]>>
           = OwnSends(s)
      /\ (header[s] # <<>> /\ header[s][1].pid = 0)
           => ~FailedWith(s, IntegrityErrors)

\* a step that is no send on s leaves the counters of s alone
C7_Step ==
    \A s \in Sockets :
      sent'[s] = sent[s] =>
        /\ sequence_next'[s] = sequence_next[s]
        /\ sequence_expected'[s] = sequence_expected[s]
        /\ acknowledge_expected'[s] = acknowledge_expected[s]

\* C7: with a control and an event socket interleaved, the sequence counter,
\* expected sequence and acknowledge flag of each socket are those its own
\* sends produce, no step that is not a send on it changes them, and a
\* header with pid 0 is never rejected for its pid or sequence.
C7_SocketsIndependent == []C7_State /\ [][C7_Step]_vars

\* C7 witness: the control socket has sent twice and waits in a call, the
\* event socket, which never sent, holds a multicast message of sequence 9
C7_Witness ==
    /\ sequence_next["control"] = 3
    /\ pc["control"] = "parse"
    /\ sequence_next["event"] = 1
    /\ result_messages["event"] # <<>>
    /\ result_messages["event"][1].header[1].pid = 0
    /\ result_messages["event"][1].header[1].sequence = 9

(***************************************************************************)
(* Properties of the attribute codec                                       *)
(***************************************************************************)
\* C8: Attribute::parse returns an error, and does not abort, whenever the
\* declared length is below the 4-byte header or beyond the bytes that
\* remain, which covers every buffer of 0 to 3 bytes.
C8_ShortAttributeIsError ==
    parsed.op = "Attribute::parse" =>
      LET remaining == Len(stream) - parsed.start IN
      (\/ remaining < HEADER_SIZE
       \/ ReadU16(stream, parsed.start) < HEADER_SIZE
       \/ ReadU16(stream, parsed.start) > remaining)
        => (parsed.kind = "err" /\ ~aborted)

\* C9: parsing what Attribute::write wrote gives the attribute back, with
\* the reader advanced by payload length + 4 rounded up to a multiple of 4.
C9_AttributeRoundTrip ==
    (phase = "attribute" /\ parsed.op = "Attribute::parse") =>
      /\ parsed.kind = "ok"
      /\ parsed.attrs = attributes
      /\ cursor = netlink_align(Len(attributes[1].data) + HEADER_SIZE)

\* C9 witness: an attribute with a one-byte payload, parsed back, the reader
\* left past the five bytes written
C9_Witness ==
    /\ phase = "attribute"
    /\ parsed.op = "Attribute::parse" /\ parsed.kind = "ok"
    /\ attributes = <<Attribute(258, <<9>>)>>
    /\ Len(stream) = 5
    /\ cursor = 8

\* offset, in the attribute stream, at which the k-th attribute was written
RECURSIVE WrittenOffset(_)
WrittenOffset(k) ==
    IF k = 1 THEN 0
    ELSE WrittenOffset(k - 1)
           + Len(Attribute_write(attributes[k - 1], build).bytes)

\* C10: in a serialized generic-netlink message every attribute starts at a
\* 4-byte-aligned offset of the attribute stream, and parsing the stream
\* gives the same attributes in the same order.
C10_MessageAttributesAligned ==
    /\ phase = "message" =>
         \A k \in 1..Len(attributes) : WrittenOffset(k) % NLMSG_ALIGNTO = 0
    /\ (phase = "message" /\ parsed.op = "Message::parse") =>
         (parsed.kind = "ok" /\ parsed.attrs = attributes)


\* the attributes of b from position c on, up to the first one that does not
\* parse (one that aborts the parse counted as not parsing) or the end of b
RECURSIVE AttributesBeforeFailure(_, _)
AttributesBeforeFailure(b, c) ==
    LET r == Attribute_parse(b, c, build) IN
    IF r.kind # "ok" THEN <<>>
    ELSE r.attr \o AttributesBeforeFailure(b, r.cursor)

\* C11: parse_attributes never fails and never aborts: on every buffer it
\* returns, in buffer order, the attributes parsed before the first
\* attribute that fails to parse or before the end of the buffer.
C11_ParseAttributesTotal ==
    parsed.op = "parse_attributes" =>
      /\ parsed.kind = "ok"
      /\ ~aborted
      /\ parsed.attrs = AttributesBeforeFailure(stream, 0)


(***************************************************************************)
(* Native-endian value codecs (core/variant.rs)                            *)
(*                                                                         *)
(* A value of an integer type is kept as a sign and a magnitude, the       *)
(* magnitude as its base-256 digits, most significant first, one digit per *)
(* byte of the type, so that 64-bit values need no wide arithmetic.  A     *)
(* HardwareAddress and a text are their octets, kept in the same field.    *)
(***************************************************************************)
IntegerTypes == {"u8", "u16", "u32", "u64", "i8", "i16", "i32", "i64"}

NativeTypes == IntegerTypes \cup {"HardwareAddress"}

\* mem::size_of::<T>()
size_of(type) ==
    CASE type \in {"u8", "i8"} -> 1
      [] type \in {"u16", "i16"} -> 2
      [] type \in {"u32", "i32"} -> 4
      [] type \in {"u64", "i64"} -> 8
      [] type = "HardwareAddress" -> 6

Signed(type) == type \in {"i8", "i16", "i32", "i64"}

Reverse(s) == [k \in 1..Len(s) |-> s[Len(s) + 1 - k]]

\* digits + 1 modulo 256^Len(digits)
RECURSIVE AddOne(_)
AddOne(digits) ==
    IF digits = <<>> THEN <<>>
    ELSE LET n == Len(digits)
             front == SubSeq(digits, 1, n - 1)
         IN  IF digits[n] = 255 THEN AddOne(front) \o <<0>>
             ELSE front \o <<digits[n] + 1>>

\* the two's complement of a magnitude: 256^n - magnitude (modulo 256^n)
TwosComplement(digits) == AddOne([k \in 1..Len(digits) |-> 255 - digits[k]])

IsZero(digits) == \A k \in 1..Len(digits) : digits[k] = 0

Integer(neg, mag) == [neg |-> neg, mag |-> mag]

\* a HardwareAddress or a text
Octets(o) == Integer(FALSE, o)

NoOctets == Octets(<<>>)

\* `v as uN`: the bit pattern of an integer, as digits
BitPattern(v) == IF v.neg THEN TwosComplement(v.mag) ELSE v.mag

\* `u as iN` for a signed type, the pattern itself for an unsigned one
FromBitPattern(type, digits) ==
    IF Signed(type) /\ digits[1] >= 128
    THEN Integer(TRUE, TwosComplement(digits))
    ELSE Integer(FALSE, digits)

\* byteorder with the bytes of the most significant digit first
BigEndian_write(digits) == digits

\* byteorder::NativeEndian on the modelled target: least significant first
NativeEndian_write(digits) == Reverse(digits)

NativeEndian_read(bytes) == Reverse(bytes)

\* NativeWrite::write: the bytes appended to the writer
NativeWrite_write(type, v) ==
    IF type = "HardwareAddress" THEN v.mag
    ELSE NativeEndian_write(BitPattern(v))

ValueOk(v, rest) == [kind |-> "ok", value |-> v, rest |-> rest]

ValueErr == [kind |-> "err", value |-> NoOctets, rest |-> <<>>]

\* NativeRead::read on a reader holding b: the value and what is left to read
NativeRead_read(type, b) ==
    LET n == size_of(type) IN
    IF Len(b) < n THEN ValueErr
    ELSE IF type = "HardwareAddress"
    THEN ValueOk(Octets(SubSeq(b, 1, 6)), SubSeq(b, n + 1, Len(b)))
    ELSE ValueOk(FromBitPattern(type, NativeEndian_read(SubSeq(b, 1, n))),
                 SubSeq(b, n + 1, Len(b)))

\* NativeParse::parse on the slice b
NativeParse_parse(type, b) ==
    LET n == size_of(type) IN
    IF Len(b) < n THEN ValueErr
    ELSE IF type = "HardwareAddress" THEN ValueOk(Octets(SubSeq(b, 1, 6)), <<>>)
    ELSE ValueOk(FromBitPattern(type, NativeEndian_read(SubSeq(b, 1, n))), <<>>)


\* str::from_utf8 succeeds; the buffers of the model hold ASCII and the octet
\* 0xFF, which no UTF-8 text contains
Utf8Valid(b) == \A k \in 1..Len(b) : b[k] < 128

\* CStr::from_bytes_with_nul succeeds: the only NUL of b is its last byte
NulTerminated(b) ==
    /\ Len(b) > 0
    /\ b[Len(b)] = 0
    /\ \A k \in 1..(Len(b) - 1) : b[k] # 0

\* the match on CStr::from_bytes_with_nul shared by String::read
\* (variant.rs 254-263) and Attribute::as_string (mod.rs 254-265)
decode_text(data) ==
    IF ~Utf8Valid(data) THEN ValueErr
    ELSE IF NulTerminated(data)
    THEN ValueOk(Octets(SubSeq(data, 1, Len(data) - 1)), <<>>)
    ELSE ValueOk(Octets(data), <<>>)

\* impl MultiValue for String, read (variant.rs 251-264)
String_read(b, size) ==
    IF Len(b) < size THEN ValueErr
    ELSE LET r == decode_text(SubSeq(b, 1, size)) IN
         [r EXCEPT !.rest = IF r.kind = "ok" THEN SubSeq(b, size + 1, Len(b))
                            ELSE <<>>]

\* Attribute::as_string (mod.rs 254-265) of an attribute with payload data
Attribute_as_string(data) == decode_text(data)


\* the digits the integer values of the model are made of
SampleDigits(type) ==
    CASE size_of(type) = 1 -> 0..255
      [] size_of(type) \in {2, 4} -> {0, 1, 127, 128, 255}
      [] size_of(type) = 6 -> {0, 128, 255}
      [] OTHER -> {0, 128}

DigitStrings(type) == [1..size_of(type) -> SampleDigits(type)]

\* the values of a type: every magnitude for an unsigned type, and for a
\* signed one the magnitudes up to 2^(n-1) - 1 and the negatives down to -2^(n-1)
Values(type) ==
    IF type = "HardwareAddress" THEN {Octets(d) : d \in DigitStrings(type)}
    ELSE IF ~Signed(type)
    THEN {Integer(FALSE, d) : d \in DigitStrings(type)}
    ELSE {Integer(FALSE, d) : d \in {e \in DigitStrings(type) : e[1] < 128}}
      \cup {Integer(TRUE, d) :
              d \in {e \in DigitStrings(type) :
                       /\ ~IsZero(e)
                       /\ \/ e[1] < 128
                          \/ e[1] = 128 /\ IsZero(Tail(e))}}

\* buffers handed to read and parse: of the size of the type, one byte
\* shorter and one byte longer
Buffers(type) ==
    DigitStrings(type)
      \cup {[k \in 1..(size_of(type) - 1) |-> 1],
             [k \in 1..(size_of(type) + 1) |-> 1]}

StringBytes == {0, 72, 255}

StringPayloads == UNION {[1..n -> StringBytes] : n \in 0..MaxString}

Operand(op, type, value, bytes) ==
    [op |-> op, type |-> type, kind |-> "ok", value |-> value, bytes |-> bytes]

Operands ==
    UNION {{Operand("value", ty, v, <<>>) : v \in Values(ty)} : ty \in NativeTypes}
      \cup UNION {{Operand("bytes", ty, NoOctets, b) : b \in Buffers(ty)} : ty \in NativeTypes}
      \cup {Operand("bytes", "String", NoOctets, b) : b \in StringPayloads}

Outcome(op, r, bytes) ==
    outcome' = [op |-> op, type |-> operand.type, kind |-> r.kind,
                value |-> r.value, bytes |-> bytes]

Decoded == outcome.op \in {"read", "parse"}

\* the bytes a decoder is given: those just written, or the operand's
Encoded == IF operand.op = "value" THEN outcome.bytes ELSE operand.bytes

CanDecode ==
    /\ operand.type \in NativeTypes
    /\ \/ operand.op = "value" /\ outcome.op = "write"
       \/ operand.op = "bytes" /\ outcome.op = "none"

\* value.write(&mut writer) on an empty writer
VariantWrite ==
    /\ operand.type \in NativeTypes
    /\ \/ operand.op = "value" /\ outcome.op = "none"
       \/ operand.op = "bytes" /\ Decoded /\ outcome.kind = "ok"
    /\ LET v == IF operand.op = "value" THEN operand.value ELSE outcome.value IN
       Outcome(IF operand.op = "value" THEN "write" ELSE "rewrite",
               ValueOk(v, <<>>), NativeWrite_write(operand.type, v))
    /\ UNCHANGED <<build, aborted, sockvars, attrvars, operand>>

\* T::read(&mut reader) on a cursor over the bytes
VariantRead ==
    /\ CanDecode
    /\ Outcome("read", NativeRead_read(operand.type, Encoded), Encoded)
    /\ UNCHANGED <<build, aborted, sockvars, attrvars, operand>>

\* T::parse(&bytes)
VariantParse ==
    /\ CanDecode
    /\ Outcome("parse", NativeParse_parse(operand.type, Encoded), Encoded)
    /\ UNCHANGED <<build, aborted, sockvars, attrvars, operand>>

\* String::read(&mut reader, size) with size the length of the payload
StringRead ==
    /\ operand.type = "String" /\ outcome.op = "none"
    /\ Outcome("String::read", String_read(operand.bytes, Len(operand.bytes)),
               operand.bytes)
    /\ UNCHANGED <<build, aborted, sockvars, attrvars, operand>>

\* Attribute::as_string of an attribute holding the payload
AsString ==
    /\ operand.type = "String" /\ outcome.op = "none"
    /\ Outcome("as_string", Attribute_as_string(operand.bytes), operand.bytes)
    /\ UNCHANGED <<build, aborted, sockvars, attrvars, operand>>

VariantInit ==
    /\ build \in {"debug", "release"}
    /\ SocketInit
    /\ CodecOff
    /\ operand \in Operands
    /\ outcome = NoValue

VariantNext ==
    \/ VariantWrite
    \/ VariantRead
    \/ VariantParse
    \/ StringRead
    \/ AsString

SpecVariant == VariantInit /\ [][VariantNext]_vars

\* C12: for the integer types and HardwareAddress, read and parse of the
\* bytes produced by write return the value written, and writing a value
\* decoded from exactly size-of-type bytes reproduces those bytes.
C12_NativeRoundTrip ==
    /\ (operand.op = "value" /\ Decoded) =>
         /\ outcome.kind = "ok"
         /\ outcome.value = operand.value
         /\ Len(outcome.bytes) = size_of(operand.type)
    /\ (outcome.op = "rewrite" /\ Len(operand.bytes) = size_of(operand.type)) =>
         outcome.bytes = operand.bytes

\* C12 witness: the i64 value -2^63 was written as 00 .. 00 80 and read back
C12_Witness ==
    /\ operand.op = "value" /\ operand.type = "i64"
    /\ operand.value = Integer(TRUE, <<128, 0, 0, 0, 0, 0, 0, 0>>)
    /\ outcome.op = "read"
    /\ outcome.bytes = <<0, 0, 0, 0, 0, 0, 0, 128>>
    /\ outcome.value = operand.value

\* a payload without the NUL bytes at its end
RECURSIVE TrimNul(_)
TrimNul(data) ==
    IF Len(data) > 0 /\ data[Len(data)] = 0
    THEN TrimNul(SubSeq(data, 1, Len(data) - 1))
    ELSE data

\* C13: String::read and Attribute::as_string return the text without the
\* NUL bytes at its end, so a payload with no terminator, with one NUL and
\* with several NUL bytes of padding decode to the same text.
C13_StringTrimsNul ==
    (outcome.op \in {"String::read", "as_string"} /\ Utf8Valid(operand.bytes)) =>
      /\ outcome.kind = "ok"
      /\ outcome.value = Octets(TrimNul(operand.bytes))


(***************************************************************************)
(* Information elements (information_element.rs)                           *)
(***************************************************************************)
\* InformationElementId values the buffers of the model use: the table
\* generated from specifications/information_element_id.json holds them
Ssid == 0
CfParameterSet == 4
ChannelSwitchAnnouncement == 37
\* a value the generated table does not hold
UnknownElementId == 254

\* identifiers with a typed parser in InformationElement::from
TypedElementIds == {Ssid, ChannelSwitchAnnouncement}

KnownElementIds == TypedElementIds \cup {CfParameterSet}

\* generated ConvertFrom<u8>::convert_from: Some(id) for a value of the table
convert_from(value) ==
    IF value \in KnownElementIds THEN <<value>> ELSE <<>>

\* generated From<u8>::from: `_ => panic!("Bad value")`
From_u8(value) ==
    IF value \in KnownElementIds THEN [panic |-> FALSE, id |-> value]
    ELSE [panic |-> TRUE, id |-> 0]

RawInformationElement(identifier, data) ==
    [tag |-> "Raw", identifier |-> identifier, data |-> data]

ElementOk(e) == [kind |-> "ok", element |-> <<e>>]

ElementErr == [kind |-> "err", element |-> <<>>]

ElementPanic == [kind |-> "panic", element |-> <<>>]

\* RawInformationElement::parse (information_element.rs 41-55): the length
\* check compares with length, the slice data[2..length + 2] needs length + 2
RawInformationElement_parse(data) ==
    IF Len(data) < 2 THEN ElementErr
    ELSE LET identifier == data[1]
             length == data[2]
         IN  IF Len(data) < length THEN ElementErr
             ELSE IF Len(data) < length + 2 THEN ElementPanic
             ELSE ElementOk(RawInformationElement(identifier,
                                                  SubSeq(data, 3, length + 2)))

\* InformationElements::parse (information_element.rs 68-76)
RECURSIVE InformationElements_parse(_)
InformationElements_parse(data) ==
    LET r == RawInformationElement_parse(data) IN
    IF r.kind = "panic" THEN [kind |-> "panic", elements |-> <<>>]
    ELSE IF r.kind = "err" THEN [kind |-> "ok", elements |-> <<>>]
    ELSE LET ie == r.element[1]
             rest == InformationElements_parse(
                       SubSeq(data, Len(ie.data) + 3, Len(data)))
         IN  IF rest.kind = "panic" THEN rest
             ELSE [kind |-> "ok", elements |-> <<ie>> \o rest.elements]

\* Ssid::parse always succeeds; ChannelSwitchAnnouncement::parse wants
\* four octets
typed_parse_ok(id, data) ==
    CASE id = Ssid -> TRUE
      [] id = ChannelSwitchAnnouncement -> Len(data) = 4

\* InformationElement::from turning a failed typed parse into Other
InformationElement_from_lenient(id, data) ==
    ElementOk([tag |-> IF id \in TypedElementIds /\ typed_parse_ok(id, data)
                       THEN IF id = Ssid THEN "Ssid"
                            ELSE "ChannelSwitchAnnouncement"
                       ELSE "Other",
               identifier |-> id, data |-> data])

\* InformationElement::from (information_element.rs 643-679); a typed
\* element is kept as its tag and the payload its fields are read from
InformationElement_from(id, data) ==
    IF id \in TypedElementIds
    THEN IF typed_parse_ok(id, data)
         THEN ElementOk([tag |-> IF id = Ssid THEN "Ssid"
                                 ELSE "ChannelSwitchAnnouncement",
                         identifier |-> id, data |-> data])
         ELSE ElementErr
    ELSE ElementOk([tag |-> "Other", identifier |-> id, data |-> data])

\* InformationElement::parse_all (information_element.rs 705-719)
RECURSIVE InformationElement_parse_all(_)
InformationElement_parse_all(data) ==
    LET r == RawInformationElement_parse(data) IN
    IF r.kind = "panic" THEN [kind |-> "panic", elements |-> <<>>]
    ELSE IF r.kind = "err" THEN [kind |-> "ok", elements |-> <<>>]
    ELSE LET raw == r.element[1]
             id == convert_from(raw.identifier)
             ie == IF id # <<>> THEN InformationElement_from(id[1], raw.data)
                   ELSE ElementOk([raw EXCEPT !.tag = "Other"])
         IN  IF ie.kind = "err" THEN [kind |-> "err", elements |-> <<>>]
             ELSE LET rest == InformationElement_parse_all(
                                SubSeq(data, Len(raw.data) + 3, Len(data)))
                  IN  IF rest.kind # "ok" THEN rest
                      ELSE [kind |-> "ok", elements |-> ie.element \o rest.elements]

\* InformationElement::identifier (information_element.rs 681-703)
InformationElement_identifier(ie) ==
    IF ie.tag = "Other" THEN From_u8(ie.identifier)
    ELSE [panic |-> FALSE, id |-> ie.identifier]


(***************************************************************************)
(* WirelessInterface::from_message (wireless_interface.rs)                 *)
(***************************************************************************)
\* attributes::Attribute values the messages of the model use: the table
\* generated from specifications/nl80211_attributes.json holds them
Wiphy == 1
Ifindex == 3
Ifname == 4
Mac == 6
Generation == 46
\* attributes::Attribute::Ssid
AttributeSsid == 52
\* a value the generated table does not hold
UnknownAttributeId == 65000

KnownAttributeIds == {Wiphy, Ifindex, Ifname, Mac, Generation, AttributeSsid}

\* generated From<u16> for attributes::Attribute: `_ => panic!("Bad value")`
Attribute_from(value) ==
    IF value \in KnownAttributeIds THEN [panic |-> FALSE, id |-> value]
    ELSE [panic |-> TRUE, id |-> 0]

\* the locals of from_message before the loop (wireless_interface.rs 67-75)
NoInterface ==
    [phy_id |-> <<>>, interface_name |-> <<>>, interface_index |-> <<>>,
     mac |-> <<>>, ssid |-> <<>>]

\* Attribute::as_u32 / as_string / as_hardware_address of the attribute
\* from_message reads for the identifier
decode_attribute(id, data) ==
    CASE id \in {Wiphy, Ifindex} -> NativeParse_parse("u32", data)
      [] id \in {Ifname, AttributeSsid} -> Attribute_as_string(data)
      [] id = Mac -> NativeParse_parse("HardwareAddress", data)

\* the loop of from_message (wireless_interface.rs 76-129) from attribute k
\* on, with the locals collected so far
RECURSIVE from_message_loop(_, _, _)
from_message_loop(as, k, locals) ==
    IF k > Len(as) THEN [kind |-> "ok", locals |-> locals]
    ELSE
    LET attr == as[k]
        identifier == Attribute_from(attr.identifier)
    IN
    IF identifier.panic THEN [kind |-> "panic", locals |-> locals]
    ELSE IF identifier.id \in {Wiphy, Ifindex, Ifname, Mac, AttributeSsid}
    THEN LET v == decode_attribute(identifier.id, attr.data) IN
         IF v.kind = "err" THEN [kind |-> "err", locals |-> locals]
         ELSE from_message_loop(as, k + 1,
                CASE identifier.id = Wiphy ->
                       [locals EXCEPT !.phy_id = <<v.value>>]
                  [] identifier.id = Ifindex ->
                       [locals EXCEPT !.interface_index = <<v.value>>]
                  [] identifier.id = Ifname ->
                       [locals EXCEPT !.interface_name = <<v.value>>]
                  [] identifier.id = Mac ->
                       [locals EXCEPT !.mac = <<v.value>>]
                  [] identifier.id = AttributeSsid ->
                       [locals EXCEPT !.ssid = <<v.value>>])
    ELSE from_message_loop(as, k + 1, locals)

\* WirelessInterface::from_message (wireless_interface.rs 65-147)
WirelessInterface_from_message(as) ==
    LET r == from_message_loop(as, 1, NoInterface) IN
    IF r.kind # "ok" THEN [kind |-> r.kind, interface |-> <<>>]
    ELSE IF /\ r.locals.phy_id # <<>>
            /\ r.locals.interface_name # <<>>
            /\ r.locals.interface_index # <<>>
            /\ r.locals.mac # <<>>
    THEN [kind |-> "ok", interface |-> <<r.locals>>]
    ELSE [kind |-> "notfound", interface |-> <<>>]

\* the attributes a message given to from_message is made of
InterfaceAttributes ==
    {Attribute(Wiphy, <<0, 0, 0, 0>>),
     Attribute(Ifindex, <<3, 0, 0, 0>>), Attribute(Ifname, <<119, 0>>),
     Attribute(Mac, <<2, 0, 0, 0, 0, 1>>), Attribute(Generation, <<1, 0, 0, 0>>),
     Attribute(AttributeSsid, <<255>>), Attribute(UnknownAttributeId, <<>>)}

\* messages of distinct attributes, in every order
InterfaceMessages ==
    UNION {{m \in [1..n -> InterfaceAttributes] :
              \A j, k \in 1..n : j # k => m[j] # m[k]} :
           n \in 0..MaxInterfaceAttributes}

\* WirelessInterface::from_message(message, family_id)
FromMessage ==
    /\ Running /\ operand.type = "message" /\ outcome.op = "none"
    /\ LET r == WirelessInterface_from_message(operand.value.mag) IN
       /\ outcome' = [op |-> "from_message", type |-> operand.type,
                      kind |-> r.kind, value |-> r.interface, bytes |-> <<>>]
       /\ aborted' = (r.kind = "panic")
    /\ UNCHANGED <<build, sockvars, attrvars, operand>>

ElementBytes == {0, CfParameterSet, ChannelSwitchAnnouncement, UnknownElementId}

ElementBuffers == UNION {[1..n -> ElementBytes] : n \in 0..MaxIE}

\* the outcome of a call on the operand's buffer
ElementOutcome(op, kind, elements) ==
    /\ outcome' = [op |-> op, type |-> operand.type, kind |-> kind,
                   value |-> elements, bytes |-> operand.bytes]
    /\ aborted' = (kind = "panic")
    /\ UNCHANGED <<build, sockvars, attrvars, operand>>

\* RawInformationElement::parse(&buffer)
RawParse ==
    /\ Running /\ operand.type = "elements" /\ outcome.op = "none"
    /\ LET r == RawInformationElement_parse(operand.bytes) IN
       ElementOutcome("RawInformationElement::parse", r.kind, r.element)

\* InformationElements::parse(&buffer)
ElementsParse ==
    /\ Running /\ operand.type = "elements" /\ outcome.op = "none"
    /\ LET r == InformationElements_parse(operand.bytes) IN
       ElementOutcome("InformationElements::parse", r.kind, r.elements)

\* InformationElement::parse_all(&buffer)
ParseAll ==
    /\ Running /\ operand.type = "elements" /\ outcome.op = "none"
    /\ LET r == InformationElement_parse_all(operand.bytes) IN
       ElementOutcome("parse_all", r.kind, r.elements)

\* identifier() called on one of the elements parse_all returned
Identifier ==
    /\ Running /\ outcome.op = "parse_all" /\ outcome.kind = "ok"
    /\ \E k \in 1..Len(outcome.value) :
         LET r == InformationElement_identifier(outcome.value[k]) IN
         ElementOutcome("identifier", IF r.panic THEN "panic" ELSE "ok",
                        <<outcome.value[k]>>)

Nl80211Init ==
    /\ build \in {"debug", "release"}
    /\ SocketInit
    /\ CodecOff
    /\ operand \in {Operand("bytes", "elements", NoOctets, b) : b \in ElementBuffers}
                  \cup {Operand("value", "message", Octets(m), <<>>) :
                          m \in InterfaceMessages}
    /\ outcome = NoValue

Nl80211Next ==
    \/ RawParse
    \/ ElementsParse
    \/ ParseAll
    \/ Identifier
    \/ FromMessage

SpecNl80211 == Nl80211Init /\ [][Nl80211Next]_vars

\* C14: RawInformationElement::parse on a buffer whose second octet is L
\* succeeds exactly when the buffer holds at least L + 2 octets, yielding the
\* first octet as identifier and the L octets that follow as data; on every
\* shorter buffer it returns an error and does not abort.
C14_RawParseChecksLength ==
    outcome.op = "RawInformationElement::parse" =>
      LET b == operand.bytes IN
      IF Len(b) >= 2 /\ Len(b) >= b[2] + 2
      THEN /\ outcome.kind = "ok"
           /\ outcome.value = <<RawInformationElement(b[1], SubSeq(b, 3, b[2] + 2))>>
      ELSE outcome.kind = "err"

\* the complete elements at the front of a buffer, as the element layout
\* defines them: identifier, length L, L octets
RECURSIVE CompleteElements(_)
CompleteElements(b) ==
    IF Len(b) < 2 \/ Len(b) < b[2] + 2 THEN <<>>
    ELSE <<RawInformationElement(b[1], SubSeq(b, 3, b[2] + 2))>>
           \o CompleteElements(SubSeq(b, b[2] + 3, Len(b)))

\* C15: InformationElements::parse returns the complete elements at the
\* front of the buffer, in order, stops at the first remainder that holds no
\* complete element, and does not abort on any buffer.
C15_ElementsParseTotal ==
    outcome.op = "InformationElements::parse" =>
      /\ outcome.kind = "ok"
      /\ outcome.value = CompleteElements(operand.bytes)


\* the element's identifier is in the table of InformationElementId
Recognized(e) == e.identifier \in KnownElementIds

\* the element has a typed parser and the parser rejects its payload
FailsTypedParser(e) ==
    /\ e.identifier \in TypedElementIds
    /\ ~typed_parse_ok(e.identifier, e.data)

C17_UnknownValuesTolerated ==
    /\ (outcome.op = "identifier" /\ outcome.value[1].tag = "Other") =>
         outcome.kind = "ok"
    /\ outcome.op = "from_message" =>
         LET known == SelectSeq(operand.value.mag,
                                LAMBDA a : a.identifier \in KnownAttributeIds)
         IN  /\ outcome.kind # "panic"
             /\ outcome.kind = WirelessInterface_from_message(known).kind
             /\ outcome.value = WirelessInterface_from_message(known).interface


(***************************************************************************)
(* Cipher suites, key management suites and RSN capabilities               *)
(* (information_element.rs).  A 32-bit suite selector is kept as its four  *)
(* base-256 digits, most significant first.                                *)
(***************************************************************************)
\* 0x00ac_0f00: the low three octets of a standard selector
StandardOui == <<172, 15, 0>>

Suite(tag, arg) == [tag |-> tag, arg |-> arg]

SuiteTypes == {"CipherSuite", "AuthenticationKeyManagement"}

\* the match arms of From<u32>: high octet -> variant
StandardSuites(type) ==
    IF type = "CipherSuite"
    THEN (0 :> "UseGroupCipherSuite" @@ 1 :> "WiredEquivalentPrivacy40"
          @@ 2 :> "TemporalKeyIntegrityProtocol"
          @@ 4 :> "CounterModeCbcMacProtocol"
          @@ 5 :> "WiredEquivalentPrivacy104"
          @@ 6 :> "BroadcastIntegrityProtocol"
          @@ 7 :> "GroupAddressedTrafficNotAllowed")
    ELSE (1 :> "PairwiseMasterKeySecurityAssociation" @@ 2 :> "PreSharedKey"
          @@ 3 :> "FastTransitionPMKSA" @@ 4 :> "FastTransitionPreSharedKey"
          @@ 5 :> "PMKSASha256" @@ 6 :> "PreSharedKeySha256"
          @@ 7 :> "TunneledDirectLinkSetup"
          @@ 8 :> "SimultaneousAuthenticationOfEquals"
          @@ 9 :> "FastTransitionSAE")

\* From<u32> with every non-standard selector decoded as Vendor
Suite_from_vendor_only(type, v) ==
    IF SubSeq(v, 2, 4) = StandardOui /\ v[1] \in DOMAIN StandardSuites(type)
    THEN Suite(StandardSuites(type)[v[1]], <<>>)
    ELSE Suite("Vendor", v)

\* impl From<u32> for CipherSuite (information_element.rs 132-152) and for
\* AuthenticationKeyManagement (216-238)
Suite_from(type, v) ==
    IF SubSeq(v, 2, 4) = StandardOui
    THEN LET c == v[1] IN
         IF c \in DOMAIN StandardSuites(type)
         THEN Suite(StandardSuites(type)[c], <<>>)
         ELSE Suite("Reserved", <<c>>)
    ELSE Suite("Vendor", v)

\* From<suite> for u32 without the shift of the Reserved octet
u32_from_unshifted(type, s) ==
    CASE s.tag = "Reserved" -> <<0, 172, 15, s.arg[1]>>
      [] s.tag = "Vendor" -> s.arg
      [] OTHER -> <<CHOOSE c \in DOMAIN StandardSuites(type) :
                      StandardSuites(type)[c] = s.tag>> \o StandardOui

\* impl From<CipherSuite> for u32 (information_element.rs 154-170) and
\* From<AuthenticationKeyManagement> for u32 (240-256)
u32_from(type, s) ==
    CASE s.tag = "Reserved" -> <<s.arg[1]>> \o StandardOui
      [] s.tag = "Vendor" -> s.arg
      [] OTHER -> <<CHOOSE c \in DOMAIN StandardSuites(type) :
                      StandardSuites(type)[c] = s.tag>> \o StandardOui


\* bitflags! RsnCapabilities
PMF_REQUIRED == 64
PMF_CAPABLE == 128

\* every flag RsnCapabilities declares
RsnCapabilityBits == {1, 2, 64, 128, 512, 1024, 2048, 4096, 8192}

RECURSIVE SumOf(_)
SumOf(S) == IF S = {} THEN 0 ELSE LET x == CHOOSE y \in S : TRUE
                                  IN  x + SumOf(S \ {x})

\* RsnCapabilities::from_bits_truncate: the declared flags of the word
from_bits_truncate(word) ==
    SumOf({bit \in RsnCapabilityBits : HasBit(word, bit)})

\* RsnCapabilities::intersects for a single-bit flag
intersects(capabilities, bit) == HasBit(capabilities, bit)

\* pmf_mode testing PMF_CAPABLE first
pmf_mode_capable_first(capabilities) ==
    IF intersects(capabilities, PMF_CAPABLE) THEN "Capable"
    ELSE IF intersects(capabilities, PMF_REQUIRED) THEN "Required"
    ELSE "Disabled"

\* RobustSecurityNetwork::pmf_mode (information_element.rs 387-394)
pmf_mode(capabilities) ==
    IF intersects(capabilities, PMF_REQUIRED) THEN "Required"
    ELSE IF intersects(capabilities, PMF_CAPABLE) THEN "Capable"
    ELSE "Disabled"

\* selectors of the model: these high octets over every mix of the octets
\* of the standard OUI in the low three places
HighOctets == 0..12 \cup {128, 255}

SuiteWords == {<<h>> \o l : h \in HighOctets, l \in [1..3 -> {0, 15, 172}]}

SuiteValues(type) ==
    {Suite(StandardSuites(type)[c], <<>>) : c \in DOMAIN StandardSuites(type)}
      \cup {Suite("Reserved", <<b>>) : b \in 0..255}
      \cup {Suite("Vendor", w) : w \in SuiteWords}

\* capabilities words of the model: every low octet under four high octets
CapabilityWords == {lo + 256 * hi : lo \in 0..255, hi \in {0, 2, 62, 255}}

NoSuite == Suite("none", <<>>)

SuiteOperands ==
    UNION {{Operand("value", ty, s, <<>>) : s \in SuiteValues(ty)} \cup
           {Operand("bytes", ty, NoSuite, w) : w \in SuiteWords} : ty \in SuiteTypes}
      \cup {Operand("bytes", "RsnCapabilities", NoSuite, <<w>>) : w \in CapabilityWords}

SuiteOutcome(op, value, bytes) ==
    /\ outcome' = [op |-> op, type |-> operand.type, kind |-> "ok",
                   value |-> value, bytes |-> bytes]
    /\ UNCHANGED <<build, aborted, sockvars, attrvars, operand>>

\* u32::from(suite), of the operand or of the suite just decoded
SuiteEncode ==
    /\ operand.type \in SuiteTypes
    /\ \/ operand.op = "value" /\ outcome.op = "none"
       \/ operand.op = "bytes" /\ outcome.op = "decode"
    /\ LET s == IF operand.op = "value" THEN operand.value ELSE outcome.value IN
       SuiteOutcome("encode", s, u32_from(operand.type, s))

\* CipherSuite::from(v) / AuthenticationKeyManagement::from(v), of the
\* operand or of the selector just encoded
SuiteDecode ==
    /\ operand.type \in SuiteTypes
    /\ \/ operand.op = "value" /\ outcome.op = "encode"
       \/ operand.op = "bytes" /\ outcome.op = "none"
    /\ LET v == IF operand.op = "value" THEN outcome.bytes ELSE operand.bytes IN
       SuiteOutcome("decode", Suite_from(operand.type, v), v)

\* pmf_mode() of an element whose capabilities were read from the word
PmfMode ==
    /\ operand.type = "RsnCapabilities" /\ outcome.op = "none"
    /\ SuiteOutcome("pmf_mode",
                    Suite(pmf_mode(from_bits_truncate(operand.bytes[1])), <<>>),
                    operand.bytes)

SuiteInit ==
    /\ build \in {"debug", "release"}
    /\ SocketInit
    /\ CodecOff
    /\ operand \in SuiteOperands
    /\ outcome = [NoValue EXCEPT !.value = NoSuite]

SuiteNext ==
    \/ SuiteEncode
    \/ SuiteDecode
    \/ PmfMode

SpecSuite == SuiteInit /\ [][SuiteNext]_vars

\* C18 as stated: every suite value, Reserved(b) for every byte b and
\* Vendor(v) for every 32-bit v included, is decoded back from its encoding.
C18_AsStated ==
    (operand.op = "value" /\ outcome.op = "decode") =>
      outcome.value = operand.value

\* a suite value that From<u32> can produce: a standard variant, Reserved
\* with an octet that selects no standard variant, Vendor with low octets
\* other than the standard OUI
Canonical(type, s) ==
    CASE s.tag = "Reserved" -> s.arg[1] \notin DOMAIN StandardSuites(type)
      [] s.tag = "Vendor" -> SubSeq(s.arg, 2, 4) # StandardOui
      [] OTHER -> TRUE

\* C18 (amended): from(u32::from(s)) == s for every standard variant, for
\* Reserved(b) when b selects no standard variant and for Vendor(v) when
\* the low three octets of v are not 0xac0f00; the other Reserved and Vendor
\* values decode to the suite that shares their encoding.
C18_SuiteRoundTrip ==
    (operand.op = "value" /\ outcome.op = "decode") =>
      /\ Canonical(operand.type, operand.value) => outcome.value = operand.value
      /\ u32_from(operand.type, outcome.value) = outcome.bytes
      /\ Canonical(operand.type, outcome.value)

\* C18 witness: the cipher suite Reserved(3) was encoded as 0x03ac0f00 and
\* decoded back
C18_Witness ==
    /\ operand.type = "CipherSuite"
    /\ operand.value = Suite("Reserved", <<3>>)
    /\ outcome.op = "decode"
    /\ outcome.bytes = <<3, 172, 15, 0>>
    /\ outcome.value = operand.value

\* C19: for every 32-bit v, encoding the suite decoded from v gives v back;
\* v decodes to Vendor(v) exactly when its low three octets are not
\* 0xac0f00, and otherwise to the standard suite the high octet selects or
\* to Reserved(high octet).
C19_SelectorRoundTrip ==
    /\ (operand.op = "bytes" /\ operand.type \in SuiteTypes
          /\ outcome.op = "encode") => outcome.bytes = operand.bytes
    /\ (operand.op = "bytes" /\ outcome.op = "decode") =>
         LET v == operand.bytes
             table == StandardSuites(operand.type)
         IN  IF <<v[2], v[3], v[4]>> # <<172, 15, 0>>
             THEN outcome.value = Suite("Vendor", v)
             ELSE IF v[1] \in DOMAIN table
             THEN outcome.value = Suite(table[v[1]], <<>>)
             ELSE outcome.value = Suite("Reserved", <<v[1]>>)

\* C19 witness: the key management selector 0x0cac0f00 was decoded as
\* Reserved(12) and encoded back
C19_Witness ==
    /\ operand.type = "AuthenticationKeyManagement"
    /\ operand.bytes = <<12, 172, 15, 0>>
    /\ outcome.op = "encode"
    /\ outcome.value = Suite("Reserved", <<12>>)
    /\ outcome.bytes = operand.bytes

\* C20: pmf_mode is Required whenever the capabilities word has
\* PMF_REQUIRED (0x0040) set, Capable when it has PMF_CAPABLE (0x0080) but
\* not PMF_REQUIRED, and Disabled when it has neither.
C20_PmfMode ==
    outcome.op = "pmf_mode" =>
      LET word == operand.bytes[1]
          required == (word \div 64) % 2 = 1
          capable == (word \div 128) % 2 = 1
      IN  outcome.value.tag = IF required THEN "Required"
                              ELSE IF capable THEN "Capable"
                              ELSE "Disabled"

\* C20 witness: a word with both PMF bits (and others) set gave Required
C20_Witness ==
    /\ outcome.op = "pmf_mode"
    /\ operand.bytes = <<255 + 256 * 62>>
    /\ outcome.value.tag = "Required"

(***************************************************************************)
(* Typed information element parsers (information_element.rs 344-608).     *)
(* A parser is given the payload of one element; its result is ok with the *)
(* decoded fields in declaration order, err, or panic.                     *)
(***************************************************************************)
FieldsOk(fields) == [kind |-> "ok", value |-> fields]

FieldsErr == [kind |-> "err", value |-> <<>>]

\* an abort, with what raised it: "overflow", "unwrap" or "index"
FieldsPanic(cause) == [kind |-> "panic", value |-> <<cause>>]

\* the tail data[from..]
Rest(data, from) == SubSeq(data, from + 1, Len(data))

\* HighThroughputOperation::parse (420-436).  data[0] + 1 and data[0] - 1
\* are u8 arithmetic: an overflow panics in a debug build and wraps in a
\* release build.
HighThroughputOperation_parse(data, bld) ==
    IF Len(data) = 22
    THEN LET offset == data[2] % 4
             overflow == \/ offset = 1 /\ data[1] = 255
                         \/ offset = 3 /\ data[1] = 0
             secondary_channel ==
                 CASE offset = 1 -> (data[1] + 1) % 256
                   [] offset = 3 -> (data[1] - 1) % 256
                   [] OTHER -> 0
             width == IF HasBit(data[2], 4) THEN 40 ELSE 20
         IN  IF overflow /\ bld = "debug" THEN FieldsPanic("overflow")
             ELSE FieldsOk(<<width, data[1], secondary_channel>>)
    ELSE FieldsErr

\* impl From<u8> for MaxVhtMcs (462-471); 3 stands for NotSupported
MaxVhtMcs_from(v) == IF v \in {0, 1, 2} THEN v ELSE 3

\* VeryHighThroughputOperation::parse (487-512)
VeryHighThroughputOperation_parse(data) ==
    IF Len(data) = 5
    THEN LET width == CASE data[1] % 4 = 1 -> 80
                        [] data[1] % 4 = 2 -> 160
                        [] data[1] % 4 = 3 -> 80
                        [] OTHER -> 40
             max_vht_mcs_ss ==
                 [i \in 1..8 |->
                    MaxVhtMcs_from((data[IF i <= 4 THEN 4 ELSE 5]
                                      \div (4 ^ ((i - 1) % 4))) % 4)]
         IN  FieldsOk(<<width, data[2], data[3], max_vht_mcs_ss>>)
    ELSE FieldsErr

\* impl From<u8> for ChannelSwitchMode (533-540)
ChannelSwitchMode_from(v) == IF v = 1 THEN 1 ELSE 0

\* ChannelSwitchAnnouncement::parse accepting every payload of 4 or more
ChannelSwitchAnnouncement_parse_lenient(data) ==
    IF Len(data) >= 4
    THEN FieldsOk(<<ChannelSwitchMode_from(data[1]), data[2], data[3]>>)
    ELSE FieldsErr

\* ChannelSwitchAnnouncement::parse (554-563)
ChannelSwitchAnnouncement_parse(data) ==
    IF Len(data) = 4
    THEN FieldsOk(<<ChannelSwitchMode_from(data[1]), data[2], data[3]>>)
    ELSE FieldsErr

\* ExtendedChannelSwitchAnnouncement::parse (580-590)
ExtendedChannelSwitchAnnouncement_parse(data) ==
    IF Len(data) = 4
    THEN FieldsOk(<<ChannelSwitchMode_from(data[1]), data[2], data[3], data[4]>>)
    ELSE FieldsErr

\* Country::parse (601-608): String::from_utf8(..).unwrap() panics on two
\* octets that are not UTF-8
Country_parse(data) ==
    IF Len(data) >= 6
    THEN IF Utf8Valid(SubSeq(data, 1, 2))
         THEN FieldsOk(<<SubSeq(data, 1, 2)>>)
         ELSE FieldsPanic("unwrap")
    ELSE FieldsErr

\* LittleUnpack is not part of src/; the operators below follow its use in
\* RobustSecurityNetwork::parse: unpack_unchecked returns the little-endian
\* value at the head of the slice, unpack_with_size and unpack_vec return
\* the octets used with the value(s), or a data error when the slice is
\* shorter than the value(s) asked for.
Unpacked(used, value) == [kind |-> "ok", used |-> used, value |-> value]

UnpackErr == [kind |-> "err", used |-> 0, value |-> <<>>]

\* the four octets at data[p..] as digits, most significant first
Selector(data, p) == <<data[p + 4], data[p + 3], data[p + 2], data[p + 1]>>

u16_unpack_with_size(data) ==
    IF Len(data) >= 2 THEN Unpacked(2, ReadU16(data, 0)) ELSE UnpackErr

u32_unpack_vec(data, count) ==
    IF Len(data) >= 4 * count
    THEN Unpacked(4 * count, [i \in 1..count |-> Selector(data, 4 * (i - 1))])
    ELSE UnpackErr

\* the replay counter subfields of the capabilities word (362-373)
replay_counters(field) ==
    CASE field = 1 -> 2
      [] field = 2 -> 4
      [] field = 3 -> 16
      [] OTHER -> 1

\* RobustSecurityNetwork::parse (344-385); &data[offset..] panics when
\* offset is beyond the payload
RobustSecurityNetwork_parse(data) ==
    IF Len(data) > 8
    THEN LET version == ReadU16(data, 0)
             suite == Suite_from("CipherSuite", Selector(data, 2))
             count == ReadU16(data, 6)
             c == u32_unpack_vec(Rest(data, 8), count)
             offset1 == 8 + c.used
             n == u16_unpack_with_size(Rest(data, offset1))
             offset2 == offset1 + n.used
             a == u32_unpack_vec(Rest(data, offset2), n.value)
             offset3 == offset2 + a.used
             k == u16_unpack_with_size(Rest(data, offset3))
         IN  IF c.kind = "err" THEN FieldsErr
             ELSE IF offset1 > Len(data) THEN FieldsPanic("index")
             ELSE IF n.kind = "err" THEN FieldsErr
             ELSE IF offset2 > Len(data) THEN FieldsPanic("index")
             ELSE IF a.kind = "err" THEN FieldsErr
             ELSE IF offset3 > Len(data) THEN FieldsPanic("index")
             ELSE IF k.kind = "err" THEN FieldsErr
             ELSE FieldsOk(<<version, suite,
                             [i \in 1..count |->
                                Suite_from("CipherSuite", c.value[i])],
                             [i \in 1..n.value |->
                                Suite_from("AuthenticationKeyManagement",
                                           a.value[i])],
                             from_bits_truncate(k.value),
                             replay_counters((k.value \div 4) % 4),
                             replay_counters((k.value \div 16) % 4)>>)
    ELSE FieldsErr

(***************************************************************************)
(* IEEE 802.11 frame headers (frame.rs).  The decoded frame is kept as     *)
(* <<type, control, duration, high_throughput_control>>, the last a        *)
(* sequence that is empty for None.                                        *)
(***************************************************************************)
\* FrameControl::get_type (78-85)
get_type(field) ==
    CASE (field \div 4) % 4 = 0 -> "Management"
      [] (field \div 4) % 4 = 1 -> "Control"
      [] (field \div 4) % 4 = 2 -> "Data"
      [] OTHER -> "Reserved"

\* FrameControl::get_order (169-171)
get_order(field) == HasBit(field, 32768)

\* ManagementFrame::unpack (218-242)
ManagementFrame_unpack(control, duration, buffer) ==
    LET order == get_order(control)
        length == IF order THEN 24 ELSE 20
    IN  IF Len(buffer) > length
        THEN FieldsOk(<<"Management", control, duration,
                        IF order THEN <<Selector(buffer, 20)>> ELSE <<>> >>)
        ELSE FieldsErr

\* ControlFrame::unpack (266-277)
ControlFrame_unpack(control, duration, buffer) ==
    IF Len(buffer) > 6
    THEN FieldsOk(<<"Control", control, duration, <<>> >>)
    ELSE FieldsErr

\* DataFrame::unpack (300-323)
DataFrame_unpack(control, duration, buffer) ==
    IF Len(buffer) > 32
    THEN FieldsOk(<<"Data", control, duration, <<Selector(buffer, 28)>> >>)
    ELSE FieldsErr

\* Frame::unpack (334-359)
Frame_unpack(buffer) ==
    IF Len(buffer) > 4
    THEN LET control == ReadU16(buffer, 0)
             duration == ReadU16(buffer, 2)
         IN  CASE get_type(control) = "Management" ->
                    ManagementFrame_unpack(control, duration, Rest(buffer, 4))
               [] get_type(control) = "Control" ->
                    ControlFrame_unpack(control, duration, Rest(buffer, 4))
               [] get_type(control) = "Data" ->
                    DataFrame_unpack(control, duration, Rest(buffer, 4))
               [] OTHER -> FieldsErr
    ELSE FieldsErr

\* frame buffers: a frame control word of each type, with and without the
\* order flag, followed by 0 to MaxFrame - 2 octets
FrameBuffers ==
    {<<low, high>> \o [i \in 1..n |-> fill] :
       low \in {0, 4, 8, 12, 128}, high \in {0, 128}, fill \in {0, 7},
       n \in 0..(MaxFrame - 2)}
      \cup {<<>>, <<0>>}

(***************************************************************************)
(* read_attribute_list (wireless_interface.rs 21-39) and unpack_vec        *)
(* (unpack.rs 67-78)                                                       *)
(***************************************************************************)
\* read_attribute_list on the slice d.  &d[(vs * 2)..size] panics when size
\* is below 4; read_attributes is parse_attributes of the netlink crate.
RECURSIVE read_attribute_list(_, _)
read_attribute_list(d, bld) ==
    IF Len(d) > 4
    THEN LET size == ReadU16(d, 0) IN
         IF Len(d) > size
         THEN IF size < 4 THEN FieldsPanic("index")
              ELSE LET r == parse_attributes(Slice(d, 4, size), 0, bld) IN
                   IF r.kind = "panic" THEN FieldsPanic("overflow")
                   ELSE LET rest == read_attribute_list(Rest(d, size), bld) IN
                        IF rest.kind = "panic" THEN rest
                        ELSE FieldsOk(r.attrs \o rest.value)
         ELSE FieldsOk(<<>>)
    ELSE FieldsOk(<<>>)

\* the little-endian value of the n octets at data[p..]
RECURSIVE ReadLe(_, _, _)
ReadLe(data, p, n) ==
    IF n = 0 THEN 0 ELSE data[p + 1] + 256 * ReadLe(data, p + 1, n - 1)

\* impl Unpack for u8 / u16 / u32 (unpack.rs 11-30): data[0] and
\* NativeEndian::read_uN panic on a slice that is too short
Unpack_unpack(type, data) ==
    IF Len(data) < size_of(type) THEN FieldsPanic("index")
    ELSE FieldsOk(<<ReadLe(data, 0, size_of(type)),
                    Rest(data, size_of(type))>>)

\* unpack_vec (unpack.rs 67-78).  The r of the loop body shadows the outer
\* r, which stays (0, data): every turn unpacks from r.1 = data.
unpack_vec(type, data, size) ==
    LET r == Unpack_unpack(type, data)
        octets == size_of(type) * size
    IN  IF size > 0 /\ r.kind = "panic" THEN r
        ELSE IF octets > Len(data) THEN FieldsPanic("index")
        ELSE FieldsOk(<<[i \in 1..size |-> r.value[1]], Rest(data, octets)>>)

TypedParsers ==
    {"HighThroughputOperation", "VeryHighThroughputOperation",
     "ChannelSwitchAnnouncement", "ExtendedChannelSwitchAnnouncement",
     "Country", "RobustSecurityNetwork"}

\* the length rule of each typed parser
LengthRule(type, n) ==
    CASE type = "HighThroughputOperation" -> n = 22
      [] type = "VeryHighThroughputOperation" -> n = 5
      [] type = "ChannelSwitchAnnouncement" -> n = 4
      [] type = "ExtendedChannelSwitchAnnouncement" -> n = 4
      [] type = "Country" -> n >= 6
      [] type = "RobustSecurityNetwork" -> n > 8

\* HT payloads: every value of octet 0 and every value of the low three
\* bits of octet 1 (with and without higher bits), at 21, 22 and 23 octets
HtPayloads ==
    {<<p, s>> \o Zeros(n - 2) :
       p \in 0..255, s \in 0..7 \cup {248 + i : i \in 0..7}, n \in {22}}
      \cup {<<p, s>> \o Zeros(n - 2) : p \in {0, 36, 255}, s \in {1, 3}, n \in {21, 23}}
      \cup {<<>>, <<255>>, <<0, 3>>}

SmallOctets == {0, 1, 255}

\* payloads of up to MaxTyped octets for the fixed-length parsers
ShortPayloads == UNION {[1..n -> SmallOctets] : n \in 0..MaxTyped}

CountryPayloads ==
    {<<a, b>> \o Zeros(n) : a \in {83, 200}, b \in {69, 255}, n \in 0..5}
      \cup {<<>>, <<83>>}

\* a selector 0xNN_ac_0f_00 in payload order
StandardSelector(c) == <<0, 15, 172, c>>

\* RSN payloads: a well-formed element announcing a number of pairwise ciphers
\* and key management suites, cut at every length
RsnElement(ciphers, akms, caps) ==
    <<1, 0>> \o StandardSelector(4) \o U16Bytes(ciphers)
      \o [i \in 1..(4 * ciphers) |-> StandardSelector(4)[((i - 1) % 4) + 1]]
      \o U16Bytes(akms)
      \o [i \in 1..(4 * akms) |-> StandardSelector(2)[((i - 1) % 4) + 1]]
      \o U16Bytes(caps)

RsnPayloads ==
    UNION {{SubSeq(RsnElement(ciphers, akms, caps), 1, n) :
              n \in 0..Len(RsnElement(ciphers, akms, caps))} :
             ciphers \in 0..MaxSuites, akms \in 0..MaxSuites, caps \in {0, 204, 65535}}
      \cup {RsnElement(1, 1, 0) \o <<0, 0>>}

TypedPayloads(type) ==
    CASE type = "HighThroughputOperation" -> HtPayloads
      [] type = "Country" -> CountryPayloads
      [] type = "RobustSecurityNetwork" -> RsnPayloads
      [] OTHER -> ShortPayloads

\* an attribute as the kernel lays it out
KernelAttribute(identifier, data) ==
    U16Bytes(HEADER_SIZE + Len(data)) \o U16Bytes(identifier) \o data
      \o Zeros(netlink_padding(Len(data)))

\* the attributes of the chunks of the model
ChunkAttributes == {<<>>, <<Attribute(1, <<5, 0, 0, 0>>)>>,
                   <<Attribute(2, <<7>>)>>,
                   <<Attribute(1, <<5, 0, 0, 0>>), Attribute(2, <<7>>)>>}

RECURSIVE KernelAttributes(_)
KernelAttributes(as) ==
    IF as = <<>> THEN <<>>
    ELSE KernelAttribute(Head(as).identifier, Head(as).data)
           \o KernelAttributes(Tail(as))

\* one {size, index, attributes} chunk
Chunk(index, as) ==
    U16Bytes(4 + Len(KernelAttributes(as))) \o U16Bytes(index)
      \o KernelAttributes(as)

RECURSIVE Chunks(_, _)
Chunks(list, index) ==
    IF list = <<>> THEN <<>>
    ELSE Chunk(index, Head(list)) \o Chunks(Tail(list), index + 1)

RECURSIVE Flatten(_)
Flatten(list) == IF list = <<>> THEN <<>> ELSE Head(list) \o Flatten(Tail(list))

ChunkLists == UNION {[1..n -> ChunkAttributes] : n \in 0..MaxChunks}

\* a buffer of chunks, and buffers with octets after the last chunk or with
\* a size field below the chunk header
ListOperands ==
    {Operand("bytes", "attribute_list", <<list, tail>>, Chunks(list, 0) \o tail) :
       list \in ChunkLists, tail \in {<<>>, <<0>>, <<0, 0, 0, 0, 0>>}}
      \cup {Operand("bytes", "attribute_list", <<<<>>, b>>, b) :
              b \in {<<2, 0, 0, 0, 0, 0>>, <<0, 0, 0, 0, 0>>}}

\* the item types unpack_vec is called with
ItemTypes == {"u8", "u16", "u32"}

UnpackOperands ==
    {Operand("bytes", ty, <<n>>, b) :
       ty \in ItemTypes, n \in 0..MaxItems,
       b \in UNION {[1..k -> {1, 2}] : k \in 0..MaxUnpack}}

TypedOperands ==
    UNION {{Operand("bytes", ty, <<>>, b) : b \in TypedPayloads(ty)} :
             ty \in TypedParsers}
      \cup {Operand("bytes", "Frame", <<>>, b) : b \in FrameBuffers}
      \cup ListOperands
      \cup UnpackOperands

\* the outcome of a parser called on the operand's payload
TypedOutcome(r) ==
    /\ outcome' = [op |-> "parse", type |-> operand.type, kind |-> r.kind,
                   value |-> r.value, bytes |-> operand.bytes]
    /\ aborted' = (r.kind = "panic")
    /\ UNCHANGED <<build, sockvars, attrvars, operand>>

CanParse(type) == Running /\ operand.type = type /\ outcome.op = "none"

HtParse ==
    /\ CanParse("HighThroughputOperation")
    /\ TypedOutcome(HighThroughputOperation_parse(operand.bytes, build))

VhtParse ==
    /\ CanParse("VeryHighThroughputOperation")
    /\ TypedOutcome(VeryHighThroughputOperation_parse(operand.bytes))

CsaParse ==
    /\ CanParse("ChannelSwitchAnnouncement")
    /\ TypedOutcome(ChannelSwitchAnnouncement_parse(operand.bytes))

EcsaParse ==
    /\ CanParse("ExtendedChannelSwitchAnnouncement")
    /\ TypedOutcome(ExtendedChannelSwitchAnnouncement_parse(operand.bytes))

CountryParse ==
    /\ CanParse("Country")
    /\ TypedOutcome(Country_parse(operand.bytes))

RsnParse ==
    /\ CanParse("RobustSecurityNetwork")
    /\ TypedOutcome(RobustSecurityNetwork_parse(operand.bytes))

FrameUnpack ==
    /\ CanParse("Frame")
    /\ TypedOutcome(Frame_unpack(operand.bytes))

ReadAttributeList ==
    /\ CanParse("attribute_list")
    /\ TypedOutcome(read_attribute_list(operand.bytes, build))

UnpackVec ==
    /\ Running /\ operand.type \in ItemTypes /\ outcome.op = "none"
    /\ TypedOutcome(unpack_vec(operand.type, operand.bytes,
                               operand.value[1]))

TypedInit ==
    /\ build \in {"debug", "release"}
    /\ SocketInit
    /\ CodecOff
    /\ operand \in TypedOperands
    /\ outcome = [NoValue EXCEPT !.value = <<>>]

TypedNext ==
    \/ HtParse
    \/ VhtParse
    \/ CsaParse
    \/ EcsaParse
    \/ CountryParse
    \/ RsnParse
    \/ FrameUnpack
    \/ ReadAttributeList
    \/ UnpackVec

SpecTyped == TypedInit /\ [][TypedNext]_vars

\* C21: HighThroughputOperation::parse succeeds on every 22-octet payload,
\* whatever octets 0 and 1 hold, and fails with a data error on every other
\* length; on success primary_channel is octet 0, secondary_channel is
\* primary_channel + 1 when (octet 1 & 3) = 1, primary_channel - 1 when it
\* is 3 and 0 otherwise, and width is 40 when bit 2 of octet 1 is set and 20
\* otherwise.
C21_HtOperation ==
    (outcome.op = "parse" /\ operand.type = "HighThroughputOperation") =>
      LET data == operand.bytes IN
      IF Len(data) = 22
      THEN /\ outcome.kind = "ok"
           /\ outcome.value[2] = data[1]
           /\ outcome.value[3] = CASE data[2] % 4 = 1 -> data[1] + 1
                                   [] data[2] % 4 = 3 -> data[1] - 1
                                   [] OTHER -> 0
           /\ outcome.value[1] = IF (data[2] \div 4) % 2 = 1 THEN 40 ELSE 20
      ELSE outcome.kind = "err"

\* an RSN payload whose pairwise cipher count or key management count
\* announces more suites than the payload holds
Overrun(data) ==
    /\ Len(data) > 8
    /\ LET ciphers == ReadU16(data, 6)
           offset == 8 + 4 * ciphers
       IN  \/ offset > Len(data)
           \/ /\ offset + 2 <= Len(data)
              /\ offset + 2 + 4 * ReadU16(data, offset) > Len(data)

MinimumLength(buffer) ==
    LET control == ReadU16(buffer, 0) IN
    CASE get_type(control) = "Management" ->
           4 + (IF get_order(control) THEN 24 ELSE 20)
      [] get_type(control) = "Control" -> 4 + 6
      [] OTHER -> 4

\* C23: Frame::unpack returns a data error exactly when the frame type is
\* Reserved or the buffer is shorter than the minimum of its type (4 octets
\* of frame control and duration, then 20 for Management without the order
\* flag, 24 with it, 6 for Control), so a buffer of exactly the minimum is
\* decoded; the HT control word of a Management frame is present exactly
\* when the order flag is set.
C23_FrameUnpack ==
    (outcome.op = "parse" /\ operand.type = "Frame") =>
      LET buffer == operand.bytes IN
      /\ Len(buffer) < 4 => outcome.kind = "err"
      /\ (Len(buffer) >= 4 /\ get_type(ReadU16(buffer, 0)) # "Data") =>
           (outcome.kind = "err" <=>
              \/ get_type(ReadU16(buffer, 0)) = "Reserved"
              \/ Len(buffer) < MinimumLength(buffer))
      /\ (outcome.kind = "ok" /\ outcome.value[1] = "Management") =>
           (outcome.value[4] # <<>> <=> get_order(ReadU16(buffer, 0)))

(***************************************************************************)
(* get_generic_family (generic.rs 233-261) on the control socket.  In this *)
(* specification operand is the call, [op, name], and outcome the caller's *)
(* position: op "none" before the call, "loop" between two calls of        *)
(* receive_messages, "return" after it; seen is the list of the messages   *)
(* receive_messages has delivered to the caller so far.                    *)
(***************************************************************************)
FamilyId == 1

FamilyName == 2

MulticastGroups == 7

\* the type of nl80211 messages once the family is registered
OtherFamily == 20

\* body(value): the value is computed once and bound to the parameter of body
With(value, body(_)) == body(value)

Family(id, name, groups) == [id |-> id, name |-> name, multicast_groups |-> groups]

FamilyOk(family) == [kind |-> "ok", family |-> <<family>>]

FamilyErr(kind) == [kind |-> kind, family |-> <<>>]

\* the for loop of MultiCastGroup::from_bytes (generic.rs 137-155): 1 is
\* Name, 2 is Id; the first Name that is no string returns the error, and
\* the last Id and the last Name are the ones kept
group_loop(as) ==
    LET names == {k \in 1..Len(as) : as[k].identifier = 1}
        ids == {k \in 1..Len(as) : as[k].identifier = 2}
        last(ks) == CHOOSE k \in ks : \A j \in ks : j <= k
        group_id == IF ids # {} /\ Len(as[last(ids)].data) >= 4
                    THEN <<SubSeq(as[last(ids)].data, 1, 4)>> ELSE <<>>
        group_name == IF names = {} THEN <<>>
                      ELSE Attribute_as_string(as[last(names)].data).value.mag
    IN  IF \E k \in names : Attribute_as_string(as[k].data).kind # "ok"
        THEN [kind |-> "err", group |-> <<>>]
        ELSE IF group_id # <<>>
        THEN [kind |-> "ok", group |-> <<<<group_id[1], group_name>>>>]
        ELSE [kind |-> "err", group |-> <<>>]

MultiCastGroup_from_bytes(bytes, bld) ==
    With(parse_attributes(bytes, 0, bld),
         LAMBDA r : IF r.kind = "panic" THEN [kind |-> "panic", group |-> <<>>]
                    ELSE group_loop(r.attrs))

\* the groups of one MulticastGroups attribute (generic.rs 188-193): every
\* nested attribute is a group, and the first that fails ends the loop
groups_of(as, bld) ==
    With([k \in 1..Len(as) |-> MultiCastGroup_from_bytes(as[k].data, bld)],
         LAMBDA gs :
           IF \E k \in 1..Len(as) : gs[k].kind # "ok"
           THEN gs[CHOOSE k \in 1..Len(as) :
                     /\ gs[k].kind # "ok"
                     /\ \A j \in 1..(k - 1) : gs[j].kind = "ok"]
           ELSE [kind |-> "ok", group |-> [k \in 1..Len(as) |-> gs[k].group[1]]])

\* Family::from_message (generic.rs 174-201), from attribute k on
RECURSIVE family_loop(_, _, _, _)
family_loop(as, k, family, bld) ==
    IF k > Len(as)
    THEN IF family.id > 0 THEN FamilyOk(family) ELSE FamilyErr("notfound")
    ELSE LET a == as[k] IN
         CASE a.identifier = FamilyName ->
                IF Attribute_as_string(a.data).kind = "ok"
                THEN family_loop(as, k + 1,
                       [family EXCEPT !.name = Attribute_as_string(a.data).value.mag],
                       bld)
                ELSE FamilyErr("err")
           [] a.identifier = FamilyId ->
                IF Len(a.data) >= 2
                THEN family_loop(as, k + 1,
                                 [family EXCEPT !.id = ReadU16(a.data, 0)], bld)
                ELSE FamilyErr("err")
           [] a.identifier = MulticastGroups ->
                With(parse_attributes(a.data, 0, bld),
                     LAMBDA inner :
                       IF inner.kind = "panic" THEN FamilyErr("panic")
                       ELSE With(groups_of(inner.attrs, bld),
                                 LAMBDA gs :
                                   IF gs.kind # "ok" THEN FamilyErr(gs.kind)
                                   ELSE family_loop(as, k + 1,
                                          [family EXCEPT !.multicast_groups =
                                                           @ \o gs.group],
                                          bld)))
           [] OTHER -> family_loop(as, k + 1, family, bld)

Family_from_message(as, bld) == family_loop(as, 1, Family(0, <<>>, <<>>), bld)

\* Message::parse followed by Family::from_message (generic.rs 249-250)
family_of(data, bld) ==
    LET msg == Message_parse(data, bld) IN
    IF msg.kind = "panic" THEN FamilyErr("panic")
    ELSE IF msg.kind = "err" THEN FamilyErr("err")
    ELSE Family_from_message(msg.attrs, bld)

\* `if family.name == name` taking every family
family_matches_any(family, name) == TRUE

\* `if family.name == name` (generic.rs 251)
family_matches(family, name) == family.name = name

\* the for loop over one delivered list (generic.rs 245-258): "ok" returns
\* the family, "none" goes on with the outer loop
RECURSIVE search(_, _, _, _)
search(messages, k, name, bld) ==
    IF k > Len(messages) THEN FamilyErr("none")
    ELSE LET m == messages[k] IN
         IF m.tag = "Data" /\ m.header[1].identifier = Control
         THEN LET f == family_of(m.data, bld) IN
              IF f.kind # "ok" THEN f
              ELSE IF family_matches(f.family[1], name) THEN f
              ELSE search(messages, k + 1, name, bld)
         ELSE search(messages, k + 1, name, bld)

\* the body of a CTRL_CMD_NEWFAMILY message
NewFamily(id, name) ==
    <<1, 2, 0, 0>> \o KernelAttribute(FamilyName, name \o <<0>>)
      \o KernelAttribute(FamilyId, U16Bytes(id))

\* a MulticastGroups attribute with one group, "s" with id 3
ScanGroup ==
    KernelAttribute(MulticastGroups,
        KernelAttribute(1, KernelAttribute(1, <<115, 0>>)
                             \o KernelAttribute(2, <<3, 0, 0, 0>>)))

\* the name asked for, "a"; "b" is another family
FamilyNames == {<<97>>}

\* what the kernel queues during a call: replies to request 1, a multicast
\* notification about another family, a message of another type and the
\* acknowledgement
FamilyDatagrams(p) ==
    {<<Wire(Control, 0, 1, p, NewFamily(21, <<97>>) \o ScanGroup)>>,
     <<Wire(Control, 0, 0, 0, NewFamily(22, <<98>>))>>,
     <<Wire(OtherFamily, 0, 1, p, <<7>>)>>,
     <<Wire(NLMSG_ERROR, 0, 1, p, ErrorBody(0, 1, p))>>,
     <<Wire(Control, 0, 1, p, NewFamily(22, <<98>>)),
       Wire(Control, 0, 1, p, NewFamily(21, <<97>>))>>,
     <<Wire(Control, 0, 1, p, NewFamily(21, <<97>>)),
       Wire(Control, 0, 1, p, NewFamily(23, <<97>>))>>}

Caller(op, kind, family, seen, calls, taken) ==
    [op |-> op, kind |-> kind, family |-> family, seen |-> seen,
     calls |-> calls, taken |-> taken]

\* tx_msg is built and sent (generic.rs 235-239)
FamilySend ==
    /\ outcome.op = "none"
    /\ send_message("control", {"Acknowledge"})
    /\ outcome' = IF ret'["control"].ok
                  THEN Caller("loop", "none", <<>>, <<>>, 0, TRUE)
                  ELSE Caller("return", "send_err", <<>>, <<>>, 0, TRUE)
    /\ UNCHANGED operand

\* socket.receive_messages() is called (generic.rs 241)
FamilyReceive ==
    /\ outcome.op = "loop" /\ outcome.taken
    /\ outcome.calls < MaxCalls
    /\ Idle("control")
    /\ ResetCall("control")
    /\ more_messages' = [more_messages EXCEPT !["control"] = TRUE]
    /\ pc' = [pc EXCEPT !["control"] = "recv"]
    /\ ret' = [ret EXCEPT !["control"] = NoReturn]
    /\ outcome' = [outcome EXCEPT !.calls = @ + 1, !.taken = FALSE]
    /\ UNCHANGED <<build, aborted, sequence_next, sequence_expected,
                   acknowledge_expected, receive_buffer, sent, attrvars, operand>>

\* receive_messages has returned: `?`, the is_empty test and the for loop
\* (generic.rs 241-258), then the next turn of the loop or the return
FamilyProcess ==
    /\ outcome.op = "loop" /\ ~outcome.taken
    /\ Idle("control")
    /\ ret["control"].call = "receive_messages"
    /\ LET r == ret["control"]
           found == search(r.messages, 1, operand.name, build)
       IN  /\ outcome' =
                IF ~r.ok
                THEN [outcome EXCEPT !.op = "return", !.kind = "receive_err"]
                ELSE IF r.messages = <<>>
                THEN [outcome EXCEPT !.op = "return", !.kind = "notfound"]
                ELSE IF found.kind = "none"
                THEN [outcome EXCEPT !.seen = @ \o r.messages, !.taken = TRUE]
                ELSE [outcome EXCEPT !.op = "return",
                                     !.kind = IF found.kind \in {"ok", "panic"}
                                              THEN found.kind ELSE "message_err",
                                     !.family = found.family,
                                     !.seen = @ \o r.messages]
           /\ aborted' = (r.ok /\ found.kind = "panic")
    /\ UNCHANGED <<build, sockvars, attrvars, operand>>

FamilyInit ==
    /\ build \in {"debug", "release"}
    /\ SocketInit
    /\ CodecOff
    /\ operand \in {[op |-> "get_generic_family", name |-> n] : n \in FamilyNames}
    /\ outcome = Caller("none", "none", <<>>, <<>>, 0, TRUE)

FamilyNext ==
    \/ FamilySend
    \/ FamilyReceive
    \/ FamilyProcess
    \/ ReceiveBytes("control", FamilyDatagrams(nl_pid("control")))
    \/ ParseData("control")
    \/ ParseDataReturn("control")
    \/ ReceiveMessagesReturn("control")

SpecFamily == FamilyInit /\ [][FamilyNext]_vars

\* the Control-family Data messages of a delivered list that name the family
Matching(messages, name, bld) ==
    SelectSeq(messages,
              LAMBDA m : /\ m.tag = "Data"
                         /\ m.header[1].identifier = Control
                         /\ family_of(m.data, bld).kind = "ok"
                         /\ family_of(m.data, bld).family[1].name = name)

\* C24: get_generic_family sends one GetFamily request in acknowledge mode
\* and returns the Family built from the first delivered Control-family Data
\* message whose FamilyName equals name; Data messages of other types or for
\* other names delivered earlier do not end the search, and the call fails
\* with a not-found error when receive_messages returns an empty list before
\* a match was seen.
C24_FirstMatchWins ==
    LET matches == Matching(outcome.seen, operand.name, build)
        last == ret["control"]
    IN
    /\ (outcome.op # "none" /\ outcome.kind # "send_err") =>
         /\ sent["control"] =
              <<[length |-> HEADER_BYTES + 4, identifier |-> Control,
                 flags |-> REQUEST + ACKNOWLEDGE, sequence |-> 1,
                 pid |-> nl_pid("control")]>>
         /\ sequence_next["control"] = 2
    /\ outcome.op = "loop" => matches = <<>>
    /\ outcome.op = "return" =>
         /\ outcome.kind \in {"ok", "notfound", "receive_err", "send_err"}
         /\ outcome.kind = "ok" <=> matches # <<>>
         /\ outcome.kind = "ok" =>
              outcome.family = family_of(matches[1].data, build).family
         /\ outcome.kind = "notfound" <=>
              (last.call = "receive_messages" /\ last.ok /\ last.messages = <<>>)

\* C24 witness: the family was returned from the second list delivered,
\* after a message of another type and one for another name
C24_Witness ==
    /\ outcome.op = "return"
    /\ outcome.kind = "ok"
    /\ outcome.calls = 2
    /\ outcome.family[1].id = 21
    /\ \E i, j \in 1..Len(outcome.seen) :
         /\ outcome.seen[i].tag = "Data"
         /\ outcome.seen[i].header[1].identifier = OtherFamily
         /\ outcome.seen[j].tag = "Data"
         /\ outcome.seen[j].header[1].identifier = Control
         /\ family_of(outcome.seen[j].data, build).family[1].name = <<98>>
         /\ j < Len(outcome.seen)

\* the message holds an attribute `id` that its accessor decodes
Decodable(as, id) ==
    \E k \in 1..Len(as) :
      as[k].identifier = id /\ decode_attribute(id, as[k].data).kind = "ok"

\* the message holds no attribute `id`
Absent(as, id) == \A k \in 1..Len(as) : as[k].identifier # id

\* C25: WirelessInterface::from_message succeeds exactly when the message
\* holds a decodable Wiphy, Ifname, Ifindex and Mac attribute, and fails with
\* the not-found error when one of the four is absent, whatever the other
\* attributes and their order.
C25_RequiredAttributes ==
    outcome.op = "from_message" =>
      LET as == operand.value.mag
          required == {Wiphy, Ifname, Ifindex, Mac}
      IN  /\ outcome.kind = "ok" <=> \A id \in required : Decodable(as, id)
          /\ (\E id \in required : Absent(as, id)) => outcome.kind = "notfound"

\* C26: read_attribute_list returns, in order, the attributes of every
\* {size, index, attributes} chunk of the buffer, the final chunk, whose
\* size equals the bytes that remain, included.
C26_EveryChunkRead ==
    (outcome.op = "parse" /\ operand.type = "attribute_list"
       /\ operand.value[2] = <<>>) =>
      /\ outcome.kind = "ok"
      /\ outcome.value = Flatten(operand.value[1])

\* C27: unpack_vec::<T>(data, n) returns the n values decoded from
\* consecutive positions of data, item i from offset i * size_of T, and the
\* slice after those n * size_of T octets.
C27_ConsecutiveItems ==
    (outcome.op = "parse" /\ operand.type \in ItemTypes) =>
      LET type == operand.type
          n == operand.value[1]
          data == operand.bytes
      IN  Len(data) >= n * size_of(type) =>
            /\ outcome.kind = "ok"
            /\ outcome.value[1] =
                 [i \in 1..n |->
                    ReadLe(data, (i - 1) * size_of(type), size_of(type))]
            /\ outcome.value[2] = Rest(data, n * size_of(type))

(***************************************************************************)
(* Properties of the socket: termination, stale responses, failed sends    *)
(***************************************************************************)
\* an iteration of the loop of parse_data that goes on with the loop moves
\* the position by at least the header size
C28_Step ==
    \A s \in Sockets :
      (pc[s] = "parse" /\ pc'[s] = "parse" /\ ~aborted') =>
        pos'[s] >= pos[s] + HEADER_BYTES

\* C28: processing one batch terminates for every buffer: each iteration
\* over a header advances the position by at least the header size, so a
\* header with a length field of 0 cannot keep the loop at one position.
C28_BatchAdvances == [][C28_Step]_vars

\* a header of this socket's pid with a sequence number older than the one
\* of the last send
Stale(h, s) == h.pid = nl_pid(s) /\ h.sequence < LastSentSequence(s)

\* the header parse_data is about to read is a stale one
StaleNext(s) ==
    /\ pc[s] = "parse" /\ ~aborted
    /\ pos[s] < Len(receive_buffer[s])
    /\ Header_parse(receive_buffer[s], pos[s]) # <<>>
    /\ Stale(Header_parse(receive_buffer[s], pos[s])[1], s)

C29_State ==
    \A s \in Sockets :
      \A m \in DataMessages(result_messages[s]) \cup DataMessages(ret[s].messages) :
        ~Stale(m.header[1], s)

C29_Step ==
    \A s \in Sockets :
      StaleNext(s) =>
        /\ ret'[s] = RetErr("receive_messages", ErrInvalidSequence)
        /\ pc'[s] = "idle"
        /\ result_messages'[s] = result_messages[s]

\* C29: a response with the bound pid and the sequence number of an earlier
\* request, read after a newer request was sent, makes receive_messages fail
\* with the sequence error and is never among the messages held or returned
\* for the newer request.
C29_StaleRejected == []C29_State /\ [][C29_Step]_vars

\* C29 witness: after the second send a reply to the first was read and the
\* call failed on it
C29_Witness ==
    /\ LastSentSequence("control") = 2
    /\ header["control"] # <<>>
    /\ header["control"][1].pid = nl_pid("control")
    /\ header["control"][1].sequence = 1
    /\ header["control"][1].identifier = Control
    /\ FailedWith("control", {ErrInvalidSequence})

\* C30: a send_message call that returns an error leaves the next sequence
\* number, the expected sequence number and acknowledge_expected as they
\* were before the call.
C30_FailedSendKeepsState ==
    [][\A s \in Sockets :
         (pc[s] = "idle" /\ ret'[s].call = "send_message" /\ ~ret'[s].ok) =>
           /\ sequence_next'[s] = sequence_next[s]
           /\ sequence_expected'[s] = sequence_expected[s]
           /\ acknowledge_expected'[s] = acknowledge_expected[s]]_vars

====
